---- MODULE Spec2Model ----
(***************************************************************************)
(* Commission-claim bot: the per-user Session Store (submissions), the     *)
(* session-token map and the completion tracker (processedSubmissions,     *)
(* processingSubmissions, processedTokens, notificationsSent) under the    *)
(* three triggers that complete a submission: the Jotform webhook, the     *)
(* manual status poll (check_upload_status) and the 30-second re-poll the  *)
(* manual poll schedules.  Every handler is cut at the awaits after which  *)
(* it reads or writes shared state; the code between two such awaits is    *)
(* one action.                                                             *)
(***************************************************************************)
EXTENDS Integers, Sequences, FiniteSets, Bags, TLC

\* ---------------------------------------------------------------- bounds
MaxUsers  == 1      \* chat users
MaxDrafts == 1      \* draft objects ever allocated (submission_form)
MaxTokens == 1      \* session tokens ever minted (confirm_submission)
MaxSubs   == 1      \* submissions made through the external form
MaxFiles  == 1      \* downloadable files of one external submission
MaxPolls  == 3      \* manual status polls
MaxHooks  == 2      \* webhook deliveries
MaxMsgs   == 2      \* messages of the bot a user keeps open
MaxAgents == 2      \* consultant slots of a draft that are filled in
MaxDeletes == 3     \* confirm_delete_ handlers in flight at once
MaxBulk == 2        \* confirm_bulk_delete_ handlers in flight at once
BulkRecords == 3    \* records of submissions.json when the bulk deletions start
SavedRecords == 2   \* records of submissions.json when the deletions start

Users    == 1..MaxUsers
DraftIds == 1..MaxDrafts
Tokens   == 1..MaxTokens
SubIds   == 1..MaxSubs
Msgs     == 1..MaxMsgs
Slots    == 1..MaxAgents

\* saveBackupToGitHub: let retries = 3
SaveRetries == 3

VARIABLES
    drafts,                  \* heap of draft objects (the values of submissions)
    nDrafts,                 \* draft objects allocated so far
    submissions,             \* Map userId -> draft object (0: no entry)
    tokenToUserId,           \* Map token -> userId (0: no entry)
    nTokens,                 \* tokens minted so far
    processingConfirmations, \* keys confirm_<u>, status_check_<u>
    processedSubmissions,
    processingSubmissions,
    processedTokens,
    notificationsSent,       \* keys <<submissionId, userId>>
    webhookUrlSet,           \* process.env.WEBHOOK_URL (or a platform URL) is set
    jotformApiKeySet,        \* process.env.JOTFORM_API_KEY is set
    formSubs,                \* the external form's submissions, by submission id
    backupExists,            \* submissions.json exists in the repository
    backup,                  \* content of submissions.json
    notifications,           \* messages sent to the notification channel (a bag)
    tasks,                   \* handlers suspended at an await (a bag)
    timers,                  \* pending setTimeout callbacks, per user
    nPolls,                  \* manual polls started so far
    nHooks,                  \* webhook deliveries handled so far
    whLast,                  \* history: the last delivery and its answer
    matchedHooks,            \* history: deliveries that matched, per submission id
    screens,                 \* the buttons each of the user's messages shows
    cancelled,               \* history: draft objects a cancel_submission removed
    fault,                   \* history: handlers that ended in an uncaught exception
    calc,                    \* a call of validateAgentPercentages or
                             \* calculateCommissions: its arguments and its result
    fastCommissionPercentages, \* Map lower-cased project name -> percentage
    fastSettings             \* fast_commission_settings.json in the repository

vars == <<drafts, nDrafts, submissions, tokenToUserId, nTokens,
          processingConfirmations, processedSubmissions, processingSubmissions,
          processedTokens, notificationsSent, webhookUrlSet,
          jotformApiKeySet, formSubs,
          backupExists, backup, notifications, tasks, timers, nPolls, nHooks,
          whLast, matchedHooks, screens, cancelled, fault, calc,
          fastCommissionPercentages, fastSettings>>

trackerVars == <<processedSubmissions, processingSubmissions, processedTokens>>
remoteVars  == <<backupExists, backup>>
countVars   == <<nPolls, nHooks, whLast, matchedHooks>>
fastVars    == <<fastCommissionPercentages, fastSettings>>
configVars  == <<webhookUrlSet, jotformApiKeySet>>

\* ------------------------------------------------------- the consultants
\* percentages are counted in units of 0.005: 100 is Hundred, and the
\* validator's `Math.abs(total - 100) < 0.01` is `< Tolerance`
Hundred == 20000
Tolerance == 2

\* what a user types as a percentage: nothing or text (parsed as 0), 50,
\* 50.005, 95, 100
Pcts == {0, 10000, 10001, 19000, 20000}

\* a slot of data.agents with no named consultant (a hole, or an entry whose
\* name is empty: every reader skips both)
NoAgent == [name |-> FALSE, percentage |-> 0, commission |-> -1]

NoAgents == [i \in Slots |-> NoAgent]

\* agents.filter(agent => agent && agent.name)
FilterNamed(agents) ==
    LET named == SelectSeq(agents, LAMBDA a : a.name) IN
    [i \in Slots |-> IF i <= Len(named) THEN named[i] ELSE NoAgent]

RECURSIVE TotalPercentage(_, _)
\* agents.reduce((sum, agent) => sum + parseFloat(agent.percentage || 0), 0)
\* over the first n slots
TotalPercentage(agents, n) ==
    IF n = 0 THEN 0 ELSE TotalPercentage(agents, n - 1) + agents[n].percentage

\* validateAgentPercentages
validateAgentPercentages(agents) ==
    LET total == TotalPercentage(agents, MaxAgents)
        diff == IF total >= Hundred THEN total - Hundred ELSE Hundred - total
    IN diff < Tolerance

\* calculateCommissions: every consultant's commission is their share of the
\* total commission (counted in the units of the percentages)
calculateCommissions(agents) ==
    [i \in Slots |-> IF agents[i].name
                     THEN [agents[i] EXCEPT !.commission = agents[i].percentage]
                     ELSE agents[i]]

\* ------------------------------------------------------ the commissions
\* a text field is the sequence of its characters; the characters followed are
\* the digits, the comma and one letter (no sign, no point, no blank)
Digits == <<"0", "1", "2", "3", "4", "5", "6", "7", "8", "9">>

IsDigit(c) == \E i \in 1..Len(Digits) : Digits[i] = c

DigitValue(c) == (CHOOSE i \in 1..Len(Digits) : Digits[i] = c) - 1

RECURSIVE ValueOf(_)
\* the number a text of digits spells
ValueOf(ds) ==
    IF ds = <<>> THEN 0
    ELSE 10 * ValueOf(SubSeq(ds, 1, Len(ds) - 1)) + DigitValue(ds[Len(ds)])

RECURSIVE DigitPrefix(_)
\* the longest prefix of digits of a text
DigitPrefix(str) ==
    IF str = <<>> \/ ~IsDigit(Head(str)) THEN <<>>
    ELSE <<Head(str)>> \o DigitPrefix(Tail(str))

\* a number of the program: NaN, or a count of cents (payouts) or of units
\* (prices, rates)
NotANumber == [nan |-> TRUE, value |-> 0]

\* parseFloat: the number the leading digits spell, NaN when there is none
parseFloat(str) ==
    IF DigitPrefix(str) = <<>> THEN NotANumber
    ELSE [nan |-> FALSE, value |-> ValueOf(DigitPrefix(str))]

\* cleanNettPrice that keeps the commas
cleanNettPrice_KeepsCommas(nettPrice) == nettPrice

\* String(nettPrice).replace(/,/g, '')
cleanNettPrice(nettPrice) == SelectSeq(nettPrice, LAMBDA c : c # ",")

\* (nett * rate) / 100, counted in cents
totalCommission(nettPrice, commissionRate) ==
    LET nett == parseFloat(cleanNettPrice(nettPrice))
        rate == parseFloat(commissionRate)
    IN IF nett.nan \/ rate.nan THEN NotANumber
       ELSE [nan |-> FALSE, value |-> nett.value * rate.value]

\* toFixed(0) in the place of toFixed(2): whole units, no cents
toFixed_NoDecimals(total, percentage) ==
    IF total.nan THEN {NotANumber}
    ELSE LET whole == (total.value \div Hundred) * percentage
                      + ((total.value % Hundred) * percentage) \div Hundred
         IN {[nan |-> FALSE, value |-> ((whole + 50) \div 100) * 100]}

\* ((totalCommission * agentPercentage) / 100).toFixed(2): "NaN", or the
\* nearest count of cents.  The double nearest to a value that ends in half a
\* cent lies just below or just above it, so either neighbour can come out
toFixed(total, percentage) ==
    IF total.nan THEN {NotANumber}
    ELSE LET whole == (total.value \div Hundred) * percentage
                      + ((total.value % Hundred) * percentage) \div Hundred
             rest  == ((total.value % Hundred) * percentage) % Hundred
         IN IF 2 * rest < Hundred THEN {[nan |-> FALSE, value |-> whole]}
            ELSE IF 2 * rest > Hundred THEN {[nan |-> FALSE, value |-> whole + 1]}
            ELSE {[nan |-> FALSE, value |-> whole],
                  [nan |-> FALSE, value |-> whole + 1]}

\* calculateCommissions(nettPrice, commissionRate, agents): the commission
\* strings agents.map can give, slot by slot ({...agent} is kept as it is)
commissionStrings(nettPrice, commissionRate, agents) ==
    {out \in [Slots -> {NotANumber} \cup
                 UNION {toFixed(totalCommission(nettPrice, commissionRate),
                                agents[i].percentage) : i \in Slots}] :
        \A i \in Slots :
           out[i] \in toFixed(totalCommission(nettPrice, commissionRate),
                               agents[i].percentage)}

\* ------------------------------------------------------------- the drafts
NoDraft ==
    [owner |-> 0, status |-> "none", sessionToken |-> 0, dataConfirmed |-> FALSE,
     hasForm |-> FALSE, formToken |-> 0, uploadedFiles |-> 0,
     jotformSubmissionId |-> 0, agents |-> NoAgents, customer |-> FALSE]

\* NewDraft that takes nothing from the entry it replaces
NewDraft_Fresh(u) == [NoDraft EXCEPT !.owner = u]

\* the object submission_form stores: project fields, the consultants and the
\* customer fields of the entry it replaces, no status, no token
NewDraft(u) ==
    [NoDraft EXCEPT !.owner = u,
                    !.agents = IF submissions[u] # 0
                               THEN drafts[submissions[u]].agents ELSE NoAgents,
                    !.customer = IF submissions[u] # 0
                                 THEN drafts[submissions[u]].customer ELSE FALSE]

NoTask ==
    [kind |-> "none", pc |-> "idle", user |-> 0, draft |-> 0, sid |-> 0,
     token |-> 0, files |-> 0, list |-> <<>>, sha |-> <<"u">>, retries |-> 0,
     msg |-> 0, attempts |-> 0, index |-> 0, indices |-> {},
     projectName |-> <<>>, percentage |-> 0, content |-> <<>>]

\* fast_commission_settings.json does not exist
NoFile == [exists |-> FALSE, content |-> <<>>]

\* no call of the two functions is followed
NoCall ==
    [fn |-> "none", nettPrice |-> <<>>, commissionRate |-> <<>>,
     agents |-> NoAgents, done |-> FALSE, valid |-> FALSE,
     out |-> [i \in Slots |-> [name |-> FALSE, percentage |-> 0,
                               commission |-> NotANumber]]]

NoHook == [sid |-> 0, token |-> 0, msg |-> "none", code |-> 0, held |-> FALSE]

Init ==
    /\ drafts = [d \in DraftIds |-> NoDraft]
    /\ nDrafts = 0
    /\ submissions = [u \in Users |-> 0]
    /\ tokenToUserId = [k \in Tokens |-> 0]
    /\ nTokens = 0
    /\ processingConfirmations = {}
    /\ processedSubmissions = {}
    /\ processingSubmissions = {}
    /\ processedTokens = {}
    /\ notificationsSent = {}
    /\ webhookUrlSet \in BOOLEAN
    /\ jotformApiKeySet \in BOOLEAN
    /\ formSubs = <<>>
    /\ backupExists = FALSE
    /\ backup = <<>>
    /\ notifications = EmptyBag
    /\ tasks = EmptyBag
    /\ timers = [u \in Users |-> 0]
    /\ nPolls = 0
    /\ nHooks = 0
    /\ whLast = NoHook
    /\ matchedHooks = [s \in SubIds |-> 0]
    /\ screens = [m \in Msgs |-> {}]
    /\ cancelled = {}
    /\ fault = {}
    /\ calc = NoCall
    /\ fastCommissionPercentages = <<>>
    /\ fastSettings = NoFile

\* ------------------------------------------------------------ task slots
Tasks == BagToSet(tasks)
Add(r) == tasks (+) SetToBag({r})
Remove(t) == tasks (-) SetToBag({t})
Replace(t, r) == (tasks (-) SetToBag({t})) (+) SetToBag({r})

confirmKey(u) == <<"confirm", u>>
statusCheckKey(u) == <<"status_check", u>>

\* ------------------------------------------------- the workflow handlers
\* ------------------------------------------------------------ the messages
\* a message is the set of custom ids of the buttons it shows; a message with
\* no button is a slot the next reply can take.  show_agent_form_back_<k>
\* (k > 1) opens the modal of consultant k-1 and is written show_agent_form_<k-1>;
\* skip_to_customer opens the modal of show_customer_form and is written so
AgentButton ==
    <<"show_agent_form_1", "show_agent_form_2", "show_agent_form_3",
      "show_agent_form_4">>

ConfirmRow == {"confirm_submission", "edit_details", "cancel_submission"}
EditRow    == {"edit_agent_percentages", "cancel_submission"}
RestartRow == {"restart_submission"}
LinkRow    == {"check_upload_status", "cancel_submission"}
RetryRow   == {"retry_jotform", "view_preserved_data"}
AlternativeRow == {"retry_jotform", "cancel_submission"}

Show(m, row) == screens' = [screens EXCEPT ![m] = row]

\* interaction.editReply of a handler pressed on message m
EditReply(m, row) == IF m = 0 THEN UNCHANGED screens ELSE Show(m, row)

hasConsultants(data) == \E i \in Slots : data.agents[i].name

\* submission_form: a new object replaces the user's entry
StoreProject(u) ==
    /\ nDrafts < MaxDrafts
    /\ nDrafts' = nDrafts + 1
    /\ drafts' = [drafts EXCEPT ![nDrafts + 1] = NewDraft(u)]
    /\ submissions' = [submissions EXCEPT ![u] = nDrafts + 1]
    /\ UNCHANGED <<tokenToUserId, nTokens, processingConfirmations, trackerVars,
                   notificationsSent, configVars, formSubs, remoteVars,
                   notifications, tasks, timers, countVars, cancelled, fault, calc, fastVars>>

\* submission_form (its reply is not followed)
SubmissionForm(u) ==
    /\ StoreProject(u)
    /\ UNCHANGED screens

\* cancel_submission: submissions.delete(userId)
DeleteEntry(u) ==
    /\ submissions[u] # 0
    /\ submissions' = [submissions EXCEPT ![u] = 0]
    /\ cancelled' = cancelled \cup {submissions[u]}
    /\ UNCHANGED <<fault, calc, fastVars>>
    /\ UNCHANGED <<drafts, nDrafts, tokenToUserId, nTokens, processingConfirmations,
                   trackerVars, notificationsSent, configVars, formSubs,
                   remoteVars, notifications, tasks, timers, countVars>>

\* cancel_submission (the message it updates is not followed)
CancelSubmission(u) ==
    /\ DeleteEntry(u)
    /\ UNCHANGED screens

ConfirmsWaiting == {t \in Tasks : t.pc = "c_defer"}

\* confirm_submission up to its first await (deferUpdate), pressed on
\* message m (0: a message that is not followed)
ConfirmStart(u, m) ==
    LET d == submissions[u] IN
    /\ m # 0 => "confirm_submission" \in screens[m]
    /\ ~(d # 0 /\ drafts[d].dataConfirmed /\ drafts[d].sessionToken # 0)
    /\ confirmKey(u) \notin processingConfirmations
    /\ nTokens + Cardinality(ConfirmsWaiting) < MaxTokens
    /\ processingConfirmations' = processingConfirmations \cup {confirmKey(u)}
    /\ tasks' = Add([NoTask EXCEPT !.kind = "confirm", !.pc = "c_defer",
                                   !.user = u, !.draft = d, !.msg = m])
    /\ UNCHANGED <<drafts, nDrafts, submissions, tokenToUserId, nTokens, trackerVars,
                   notificationsSent, configVars, formSubs, remoteVars,
                   notifications, timers, countVars>>
    /\ UNCHANGED <<screens, cancelled, fault, calc, fastVars>>

ConfirmBegin(u) == ConfirmStart(u, 0)

\* confirm_submission after deferUpdate: expired session, or mint the token and
\* call createJotformUpload(data, sessionToken)
ConfirmMint(t) ==
    LET u == t.user
        d == t.draft
        k == nTokens + 1 IN
    /\ t.pc = "c_defer"
    /\ IF d = 0
       THEN /\ processingConfirmations' = processingConfirmations \ {confirmKey(u)}
            /\ tasks' = Remove(t)
            /\ EditReply(t.msg, RestartRow)
            /\ UNCHANGED <<drafts, submissions, tokenToUserId, nTokens>>
       ELSE /\ nTokens' = k
            /\ UNCHANGED screens
            /\ drafts' = [drafts EXCEPT ![d].dataConfirmed = TRUE,
                                        ![d].status = "authenticated",
                                        ![d].sessionToken = k]
            /\ submissions' = [submissions EXCEPT ![u] = d]
            /\ tokenToUserId' = [tokenToUserId EXCEPT ![k] = u]
            /\ tasks' = Replace(t, [t EXCEPT !.token = k, !.attempts = 1,
                            !.pc = IF jotformApiKeySet /\ webhookUrlSet
                                   THEN "c_form" ELSE "c_fail"])
            /\ UNCHANGED processingConfirmations
    /\ UNCHANGED <<nDrafts, trackerVars, notificationsSent, configVars, formSubs,
                   remoteVars, notifications, timers, countVars>>
    /\ UNCHANGED <<cancelled, fault, calc, fastVars>>

\* createJotformUpload returned: the form is stored, the draft awaits the form;
\* the message is emptied and the follow-up with the link takes its place
ConfirmFormCreated(t) ==
    LET u == t.user
        d == t.draft IN
    /\ t.pc = "c_form"
    /\ drafts' = [drafts EXCEPT ![d].hasForm = TRUE,
                                ![d].formToken = t.token,
                                ![d].status = "awaiting_form_completion"]
    /\ submissions' = [submissions EXCEPT ![u] = d]
    /\ tasks' = Remove(t)
    /\ EditReply(t.msg, LinkRow)
    /\ UNCHANGED <<nDrafts, tokenToUserId, nTokens, processingConfirmations,
                   trackerVars, notificationsSent, configVars, formSubs,
                   remoteVars, notifications, timers, countVars>>
    /\ UNCHANGED <<cancelled, fault, calc, fastVars>>

\* createJotformUpload threw, and the message loses its buttons
ConfirmFormFailed_NoRetryRow(t) ==
    /\ t.pc = "c_fail"
    /\ processingConfirmations' =
          processingConfirmations \ {confirmKey(t.user)}
    /\ tasks' = Remove(t)
    /\ EditReply(t.msg, {})
    /\ UNCHANGED <<drafts, nDrafts, submissions, tokenToUserId, nTokens, trackerVars,
                   notificationsSent, configVars, formSubs, remoteVars,
                   notifications, timers, countVars>>
    /\ UNCHANGED <<cancelled, fault, calc, fastVars>>

\* the test of JOTFORM_API_KEY or createJotformUpload threw (no API key, no
\* webhook URL configured): retry affordance
ConfirmFormFailed(t) ==
    /\ t.pc = "c_fail"
    /\ processingConfirmations' =
          processingConfirmations \ {confirmKey(t.user)}
    /\ tasks' = Remove(t)
    /\ EditReply(t.msg, RetryRow)
    /\ UNCHANGED <<drafts, nDrafts, submissions, tokenToUserId, nTokens, trackerVars,
                   notificationsSent, configVars, formSubs, remoteVars,
                   notifications, timers, countVars>>
    /\ UNCHANGED <<cancelled, fault, calc, fastVars>>

\* the user submits the external form opened through a draft's form URL; the
\* submission carries the price_token of that URL
FormSubmit(d, f) ==
    /\ drafts[d].hasForm
    /\ Len(formSubs) < MaxSubs
    /\ formSubs' = Append(formSubs, [token |-> drafts[d].formToken, files |-> f])
    /\ UNCHANGED <<drafts, nDrafts, submissions, tokenToUserId, nTokens,
                   processingConfirmations, trackerVars, notificationsSent,
                   configVars, remoteVars, notifications, tasks, timers,
                   countVars>>
    /\ UNCHANGED <<screens, cancelled, fault, calc, fastVars>>

\* ------------------------------------------------ the completion tracker
\* transferJotformFilesToGoogleDrive up to its first await, on the tracker sets
\* P (processed) and G (processing): the three early returns and the claim.
\* The finally block removes the id from G on every return.
TransferEntry(sid, files, P, G) ==
    IF sid \in P
    THEN [claimed |-> FALSE, ret |-> files, processed |-> P,
          processing |-> G \ {sid}]
    ELSE IF files > 0
    THEN [claimed |-> FALSE, ret |-> files, processed |-> P \cup {sid},
          processing |-> G \ {sid}]
    ELSE IF sid \in G
    THEN [claimed |-> FALSE, ret |-> 0, processed |-> P,
          processing |-> G \ {sid}]
    ELSE [claimed |-> TRUE, ret |-> 0, processed |-> P,
          processing |-> G \cup {sid}]

\* checkForTokenBasedJotformSubmissions: the submissions of the form whose
\* answers carry the draft's session token
TokenMatches(d) ==
    {s \in 1..Len(formSubs) : formSubs[s].token = drafts[d].sessionToken}

\* AfterTransfer without the callers' test of the returned list's length: the
\* save goes ahead whatever the transfer returned
AfterTransfer_NoLengthCheck(t, ret, P, G) ==
    /\ processingSubmissions' = G
    /\ processedSubmissions' = P
    /\ UNCHANGED <<processedTokens, processingConfirmations>>
    /\ IF t.kind = "poll"
       THEN /\ tasks' = Replace(t, [t EXCEPT !.files = ret, !.pc = "save0"])
            /\ UNCHANGED drafts
       ELSE /\ drafts' = [drafts EXCEPT ![t.draft].uploadedFiles = ret,
                                        ![t.draft].jotformSubmissionId = t.sid]
            /\ tasks' = Replace(t, [t EXCEPT !.files = ret, !.pc = "load"])

\* the caller's code after `await transferJotformFilesToGoogleDrive(...)`
\* returned ret, with P and G the tracker sets the transfer left behind
AfterTransfer(t, ret, P, G) ==
    LET k == t.kind
        u == t.user
        d == t.draft
        sid == t.sid
        tok == t.token IN
    /\ processingSubmissions' = G \ (IF k = "hook" /\ ret = 0 THEN {sid} ELSE {})
    /\ processedSubmissions' = P \ (IF k = "hook" /\ ret = 0 THEN {sid} ELSE {})
    /\ processedTokens' =
          processedTokens \ (IF k = "hook" /\ ret = 0 THEN {tok} ELSE {})
    /\ IF ret > 0
       THEN IF k = "poll"
            THEN /\ tasks' = Replace(t, [t EXCEPT !.files = ret, !.pc = "save0"])
                 /\ UNCHANGED <<drafts, processingConfirmations>>
            ELSE /\ drafts' = [drafts EXCEPT ![d].uploadedFiles = ret,
                                             ![d].jotformSubmissionId = sid]
                 /\ tasks' = Replace(t, [t EXCEPT !.files = ret, !.pc = "load"])
                 /\ UNCHANGED processingConfirmations
       ELSE /\ tasks' = Remove(t)
            /\ processingConfirmations' =
                  processingConfirmations \
                     (IF k = "poll" THEN {statusCheckKey(u)} ELSE {})
            /\ UNCHANGED drafts

\* check_upload_status up to its first await (deferUpdate)
PollBegin(u) ==
    LET d == submissions[u] IN
    /\ nPolls < MaxPolls
    /\ d # 0
    /\ drafts[d].hasForm
    /\ statusCheckKey(u) \notin processingConfirmations
    /\ nPolls' = nPolls + 1
    /\ processingConfirmations' = processingConfirmations \cup {statusCheckKey(u)}
    /\ tasks' = Add([NoTask EXCEPT !.kind = "poll", !.pc = "p_defer",
                                   !.user = u, !.draft = d])
    /\ UNCHANGED <<drafts, nDrafts, submissions, tokenToUserId, nTokens, trackerVars,
                   notificationsSent, configVars, formSubs, remoteVars,
                   notifications, timers, nHooks, whLast, matchedHooks>>
    /\ UNCHANGED <<screens, cancelled, fault, calc, fastVars>>

\* check_upload_status after deferUpdate: the three "already complete" tests,
\* else the form's submissions are fetched
PollChecks(t) ==
    LET D == drafts[t.draft] IN
    /\ t.pc = "p_defer"
    /\ tasks' = Replace(t, [t EXCEPT !.pc =
          IF D.status = "completed" /\ D.jotformSubmissionId # 0
                                    /\ D.uploadedFiles > 0
          THEN "p_del"
          ELSE IF D.uploadedFiles > 0 THEN "p_mark"
          ELSE IF D.jotformSubmissionId # 0
                  /\ D.jotformSubmissionId \in processedSubmissions
          THEN "p_mark"
          ELSE "fetch"])
    /\ UNCHANGED <<drafts, nDrafts, submissions, tokenToUserId, nTokens,
                   processingConfirmations, trackerVars, notificationsSent,
                   configVars, formSubs, remoteVars, notifications, timers,
                   countVars>>
    /\ UNCHANGED <<screens, cancelled, fault, calc, fastVars>>

\* completed through another trigger: the entry is removed
PollDelete(t) ==
    LET u == t.user IN
    /\ t.pc \in {"p_del", "p_final"}
    /\ submissions' = [submissions EXCEPT ![u] = 0]
    /\ processingConfirmations' = processingConfirmations \ {statusCheckKey(u)}
    /\ tasks' = Remove(t)
    /\ UNCHANGED <<drafts, nDrafts, tokenToUserId, nTokens, trackerVars,
                   notificationsSent, configVars, formSubs, remoteVars,
                   notifications, timers, countVars>>
    /\ UNCHANGED <<screens, cancelled, fault, calc, fastVars>>

\* the draft already has files, or its id is processed: marked completed
PollMark(t) ==
    LET u == t.user
        d == t.draft IN
    /\ t.pc = "p_mark"
    /\ drafts' = [drafts EXCEPT ![d].status = "completed"]
    /\ submissions' = [submissions EXCEPT ![u] = d]
    /\ processingConfirmations' = processingConfirmations \ {statusCheckKey(u)}
    /\ tasks' = Remove(t)
    /\ UNCHANGED <<nDrafts, tokenToUserId, nTokens, trackerVars, notificationsSent,
                   configVars, formSubs, remoteVars, notifications, timers,
                   countVars>>
    /\ UNCHANGED <<screens, cancelled, fault, calc, fastVars>>

\* FetchResult whose re-check, too, schedules a re-check when it finds none
FetchResult_RecheckReschedules(t, r) ==
    LET k == t.kind
        u == t.user IN
    /\ t.pc = "fetch"
    /\ r \in TokenMatches(t.draft) \cup {0}
    /\ IF r # 0
       THEN /\ tasks' = Replace(t, [t EXCEPT !.sid = r,
                            !.pc = IF k = "poll" THEN "p_chk" ELSE "claim"])
            /\ UNCHANGED <<timers, processingConfirmations>>
       ELSE /\ tasks' = Remove(t)
            /\ timers' = [timers EXCEPT ![u] = @ + 1]
            /\ processingConfirmations' =
                  processingConfirmations \
                     (IF k = "poll" THEN {statusCheckKey(u)} ELSE {})
    /\ UNCHANGED <<drafts, nDrafts, submissions, tokenToUserId, nTokens, trackerVars,
                   notificationsSent, configVars, formSubs, remoteVars,
                   notifications, countVars>>
    /\ UNCHANGED <<screens, cancelled, fault, calc, fastVars>>

\* checkForTokenBasedJotformSubmissions answers r: a matching submission id, or
\* 0 (false) when none matches or the request failed.  A poll that finds none
\* schedules the 30-second re-check and ends.
FetchResult(t, r) ==
    LET k == t.kind
        u == t.user IN
    /\ t.pc = "fetch"
    /\ r \in TokenMatches(t.draft) \cup {0}
    /\ IF r # 0
       THEN /\ tasks' = Replace(t, [t EXCEPT !.sid = r,
                            !.pc = IF k = "poll" THEN "p_chk" ELSE "claim"])
            /\ UNCHANGED <<timers, processingConfirmations>>
       ELSE /\ tasks' = Remove(t)
            /\ timers' = IF k = "poll" THEN [timers EXCEPT ![u] = @ + 1] ELSE timers
            /\ processingConfirmations' =
                  processingConfirmations \
                     (IF k = "poll" THEN {statusCheckKey(u)} ELSE {})
    /\ UNCHANGED <<drafts, nDrafts, submissions, tokenToUserId, nTokens, trackerVars,
                   notificationsSent, configVars, formSubs, remoteVars,
                   notifications, countVars>>
    /\ UNCHANGED <<screens, cancelled, fault, calc, fastVars>>

\* check_upload_status with a submission found: two more "already processed"
\* tests before the transfer is started
PollPreClaim(t) ==
    LET u == t.user
        D == drafts[t.draft]
        sid == t.sid
        done == \/ D.jotformSubmissionId = sid /\ D.uploadedFiles > 0
                \/ sid \in processedSubmissions IN
    /\ t.pc = "p_chk"
    /\ tasks' = IF done THEN Remove(t) ELSE Replace(t, [t EXCEPT !.pc = "claim"])
    /\ processingConfirmations' =
          processingConfirmations \ (IF done THEN {statusCheckKey(u)} ELSE {})
    /\ UNCHANGED <<drafts, nDrafts, submissions, tokenToUserId, nTokens, trackerVars,
                   notificationsSent, configVars, formSubs, remoteVars,
                   notifications, timers, countVars>>
    /\ UNCHANGED <<screens, cancelled, fault, calc, fastVars>>

\* the call of transferJotformFilesToGoogleDrive by a poll or a re-check
Claim(t) ==
    LET e == TransferEntry(t.sid, drafts[t.draft].uploadedFiles,
                           processedSubmissions, processingSubmissions) IN
    /\ t.pc = "claim"
    /\ IF e.claimed
       THEN /\ tasks' = Replace(t, [t EXCEPT !.pc = "xfer"])
            /\ processingSubmissions' = e.processing
            /\ UNCHANGED <<drafts, processingConfirmations, processedSubmissions,
                           processedTokens>>
       ELSE AfterTransfer(t, e.ret, e.processed, e.processing)
    /\ UNCHANGED <<nDrafts, submissions, tokenToUserId, nTokens, notificationsSent,
                   configVars, formSubs, remoteVars, notifications, timers,
                   countVars>>
    /\ UNCHANGED <<screens, cancelled, fault, calc, fastVars>>

\* the claimed transfer ends with n files moved to storage (0: the submission
\* could not be fetched, or every download or upload failed)
TransferDone(t, n) ==
    LET sid == t.sid IN
    /\ t.pc = "xfer"
    /\ n \in 0..formSubs[sid].files
    /\ AfterTransfer(t, n,
          IF n > 0 THEN processedSubmissions \cup {sid} ELSE processedSubmissions,
          processingSubmissions \ {sid})
    /\ UNCHANGED <<nDrafts, submissions, tokenToUserId, nTokens, notificationsSent,
                   configVars, formSubs, remoteVars, notifications, timers,
                   countVars>>
    /\ UNCHANGED <<screens, cancelled, fault, calc, fastVars>>

\* check_upload_status after the "Finalizing" reply: the draft gets its files
PollSave(t) ==
    LET d == t.draft IN
    /\ t.pc = "save0"
    /\ drafts' = [drafts EXCEPT ![d].uploadedFiles = t.files,
                                ![d].jotformSubmissionId = t.sid]
    /\ tasks' = Replace(t, [t EXCEPT !.pc = "load"])
    /\ UNCHANGED <<nDrafts, submissions, tokenToUserId, nTokens,
                   processingConfirmations, trackerVars, notificationsSent,
                   configVars, formSubs, remoteVars, notifications, timers,
                   countVars>>
    /\ UNCHANGED <<screens, cancelled, fault, calc, fastVars>>

\* ------------------------------------------------- the backup repository
\* the record pushed onto the loaded list: { ...data, user_id, uploadedFiles }
SubmissionData(t) ==
    [sid |-> t.sid, user |-> t.user, files |-> t.files,
     token |-> drafts[t.draft].sessionToken,
     agents |-> drafts[t.draft].agents]

\* loadBackupFromGitHub answers (ok: the request succeeded; any error, a missing
\* file included, gives []), then backupData.push and the call of
\* saveBackupToGitHub up to its first getContent
LoadResult(t, ok) ==
    /\ t.pc = "load"
    /\ tasks' = Replace(t, [t EXCEPT
          !.list = Append(IF ok /\ backupExists THEN backup ELSE <<>>,
                          SubmissionData(t)),
          !.retries = SaveRetries,
          !.pc = "sha"])
    /\ UNCHANGED <<drafts, nDrafts, submissions, tokenToUserId, nTokens,
                   processingConfirmations, trackerVars, notificationsSent,
                   configVars, formSubs, remoteVars, notifications, timers,
                   countVars>>
    /\ UNCHANGED <<screens, cancelled, fault, calc, fastVars>>

\* saveBackupToGitHub: getContent for the sha (left undefined on any error)
ShaResult(t, ok) ==
    /\ t.pc = "sha"
    /\ tasks' = Replace(t, [t EXCEPT
          !.sha = IF ok /\ backupExists THEN <<"v", backup>> ELSE <<"u">>,
          !.pc = "put"])
    /\ UNCHANGED <<drafts, nDrafts, submissions, tokenToUserId, nTokens,
                   processingConfirmations, trackerVars, notificationsSent,
                   configVars, formSubs, remoteVars, notifications, timers,
                   countVars>>
    /\ UNCHANGED <<screens, cancelled, fault, calc, fastVars>>

\* what createOrUpdateFileContents answers when the request reaches the
\* repository: the write, a 409 on a stale sha, an error on a missing sha
PutOutcome(sha) ==
    IF sha = <<"u">>
    THEN IF backupExists THEN "error" ELSE "written"
    ELSE IF backupExists /\ sha = <<"v", backup>> THEN "written" ELSE "conflict"

\* where the caller of saveBackupToGitHub goes on when the call returns
AfterSave(t) == IF t.kind \in {"delete", "bulk"} THEN "d_reply" ELSE "notify"

\* PutResult that goes round the loop on any error while retries are left
PutResult_RetryAnyError(t, ok) ==
    LET o == IF ok THEN PutOutcome(t.sha) ELSE "error" IN
    /\ t.pc = "put"
    /\ IF o = "written"
       THEN /\ backupExists' = TRUE
            /\ backup' = t.list
            /\ tasks' = Replace(t, [t EXCEPT !.pc = AfterSave(t)])
       ELSE /\ UNCHANGED remoteVars
            /\ tasks' = IF t.retries > 0
                        THEN Replace(t, [t EXCEPT !.retries = @ - 1, !.pc = "sha"])
                        ELSE Replace(t, [t EXCEPT !.pc = AfterSave(t)])
    /\ UNCHANGED <<drafts, nDrafts, submissions, tokenToUserId, nTokens,
                   processingConfirmations, trackerVars, notificationsSent,
                   configVars, formSubs, notifications, timers, countVars>>
    /\ UNCHANGED <<screens, cancelled, fault, calc, fastVars>>

\* saveBackupToGitHub: createOrUpdateFileContents answers (ok: the request
\* reached the repository).  A 409 with retries left goes round the loop; every
\* other error is caught and logged, and the function returns normally.
PutResult(t, ok) ==
    LET o == IF ok THEN PutOutcome(t.sha) ELSE "error" IN
    /\ t.pc = "put"
    /\ IF o = "written"
       THEN /\ backupExists' = TRUE
            /\ backup' = t.list
            /\ tasks' = Replace(t, [t EXCEPT !.pc = AfterSave(t)])
       ELSE /\ UNCHANGED remoteVars
            /\ tasks' = IF o = "conflict" /\ t.retries > 1
                        THEN Replace(t, [t EXCEPT !.retries = @ - 1, !.pc = "sha"])
                        ELSE Replace(t, [t EXCEPT !.pc = AfterSave(t)])
    /\ UNCHANGED <<drafts, nDrafts, submissions, tokenToUserId, nTokens,
                   processingConfirmations, trackerVars, notificationsSent,
                   configVars, formSubs, notifications, timers, countVars>>
    /\ UNCHANGED <<screens, cancelled, fault, calc, fastVars>>

\* ---------------------------------------------------- deleting a record
\* confirm_delete_<index> up to its first await (loadBackupFromGitHub)
DeleteBegin(i) ==
    /\ BagCardinality(tasks) < MaxDeletes
    /\ tasks' = Add([NoTask EXCEPT !.kind = "delete", !.pc = "d_load",
                                   !.index = i])
    /\ UNCHANGED <<drafts, nDrafts, submissions, tokenToUserId, nTokens,
                   processingConfirmations, trackerVars, notificationsSent,
                   configVars, formSubs, remoteVars, notifications, timers,
                   countVars, screens, cancelled, fault, calc, fastVars>>

\* the list without its entry i (splice(index, 1), index counted from 0)
Splice(list, i) ==
    [j \in 1..(Len(list) - 1) |-> IF j <= i THEN list[j] ELSE list[j + 1]]

\* confirm_delete_: loadBackupFromGitHub answers; an index outside the loaded
\* list ends the handler, else the entry is spliced out and saveBackupToGitHub
\* is called
DeleteLoad(t, ok) ==
    LET loaded == IF ok /\ backupExists THEN backup ELSE <<>> IN
    /\ t.pc = "d_load"
    /\ tasks' = IF t.index >= Len(loaded)
                THEN Remove(t)
                ELSE Replace(t, [t EXCEPT !.list = Splice(loaded, t.index),
                                          !.retries = SaveRetries,
                                          !.pc = "sha"])
    /\ UNCHANGED <<drafts, nDrafts, submissions, tokenToUserId, nTokens,
                   processingConfirmations, trackerVars, notificationsSent,
                   configVars, formSubs, remoteVars, notifications, timers,
                   countVars, screens, cancelled, fault, calc, fastVars>>

\* confirm_delete_ after saveBackupToGitHub returned: "Submission Deleted
\* Successfully"
DeleteReply(t) ==
    /\ t.pc = "d_reply"
    /\ tasks' = Remove(t)
    /\ UNCHANGED <<drafts, nDrafts, submissions, tokenToUserId, nTokens,
                   processingConfirmations, trackerVars, notificationsSent,
                   configVars, formSubs, remoteVars, notifications, timers,
                   countVars, screens, cancelled, fault, calc, fastVars>>

\* ------------------------------------------------------- the notification
\* the caller's code after `await sendSubmissionNotification(...)`: the draft
\* is completed and stored; the webhook also retires the token and its claim
AfterNotify(t) ==
    LET k == t.kind
        u == t.user
        d == t.draft IN
    /\ drafts' = [drafts EXCEPT ![d].status = "completed"]
    /\ submissions' = [submissions EXCEPT ![u] = d]
    /\ tokenToUserId' =
          IF k = "hook" /\ drafts[d].sessionToken # 0
          THEN [tokenToUserId EXCEPT ![drafts[d].sessionToken] = 0]
          ELSE tokenToUserId
    /\ processingSubmissions' =
          processingSubmissions \ (IF k = "hook" THEN {t.sid} ELSE {})
    /\ tasks' = IF k = "poll" THEN Replace(t, [t EXCEPT !.pc = "p_final"])
                ELSE Remove(t)

notificationKey(t) == <<t.sid, drafts[t.draft].owner>>

\* Notify without the test of notificationsSent
Notify_NoDuplicateTest(t) ==
    /\ t.pc = "notify"
    /\ notificationsSent' = notificationsSent \cup {notificationKey(t)}
    /\ tasks' = Replace(t, [t EXCEPT !.pc = "send"])
    /\ UNCHANGED <<drafts, submissions, tokenToUserId, processingSubmissions>>
    /\ UNCHANGED <<nDrafts, nTokens, processingConfirmations, processedSubmissions,
                   processedTokens, configVars, formSubs, remoteVars,
                   notifications, timers, countVars>>
    /\ UNCHANGED <<screens, cancelled, fault, calc, fastVars>>

\* sendSubmissionNotification up to channel.send: the duplicate test
Notify(t) ==
    /\ t.pc = "notify"
    /\ IF notificationKey(t) \in notificationsSent
       THEN /\ AfterNotify(t)
            /\ UNCHANGED notificationsSent
       ELSE /\ notificationsSent' = notificationsSent \cup {notificationKey(t)}
            /\ tasks' = Replace(t, [t EXCEPT !.pc = "send"])
            /\ UNCHANGED <<drafts, submissions, tokenToUserId,
                           processingSubmissions>>
    /\ UNCHANGED <<nDrafts, nTokens, processingConfirmations, processedSubmissions,
                   processedTokens, configVars, formSubs, remoteVars,
                   notifications, timers, countVars>>
    /\ UNCHANGED <<screens, cancelled, fault, calc, fastVars>>

\* channel.send answers (an error is caught and logged)
SendResult(t, ok) ==
    /\ t.pc = "send"
    /\ notifications' =
          IF ok THEN notifications (+) SetToBag({[sid |-> t.sid, user |-> t.user,
                                                  draft |-> t.draft]})
          ELSE notifications
    /\ AfterNotify(t)
    /\ UNCHANGED <<nDrafts, nTokens, processingConfirmations, processedSubmissions,
                   processedTokens, notificationsSent, configVars, formSubs,
                   remoteVars, timers, countVars>>
    /\ UNCHANGED <<screens, cancelled, fault, calc, fastVars>>

\* ------------------------------------------------- the scheduled re-check
\* the setTimeout callback of check_upload_status up to its first await
TimerFire(u) ==
    LET d == submissions[u] IN
    /\ timers[u] > 0
    /\ timers' = [timers EXCEPT ![u] = @ - 1]
    /\ IF d # 0 /\ drafts[d].status = "awaiting_form_completion"
       THEN tasks' = Add([NoTask EXCEPT !.kind = "timer", !.pc = "fetch",
                                         !.user = u, !.draft = d])
       ELSE UNCHANGED tasks
    /\ UNCHANGED <<drafts, nDrafts, submissions, tokenToUserId, nTokens,
                   processingConfirmations, trackerVars, notificationsSent,
                   configVars, formSubs, remoteVars, notifications, countVars>>
    /\ UNCHANGED <<screens, cancelled, fault, calc, fastVars>>

\* -------------------------------------------------------------- the webhook
\* the draft a webhook token matches: the token is a key of tokenToUserId, its
\* user has an entry, and the entry carries the token and awaits the form
MatchedDraft(tok) ==
    IF tok = 0 THEN 0
    ELSE IF tokenToUserId[tok] = 0 THEN 0
    ELSE LET d == submissions[tokenToUserId[tok]] IN
         IF d # 0 /\ drafts[d].sessionToken = tok
                  /\ drafts[d].status = "awaiting_form_completion"
         THEN d ELSE 0

\* a manual poll holds the claim of sid: it is inside the transfer
PollHolds(sid) ==
    /\ sid \in processingSubmissions
    /\ \E t \in Tasks : t.kind = "poll" /\ t.pc = "xfer" /\ t.sid = sid

\* WebhookAnswer without the test of processingSubmissions
WebhookAnswer_NoProcessingCheck(sid, tok) ==
    IF sid \in processedSubmissions THEN "Already processed"
    ELSE IF tok # 0 /\ tok \in processedTokens THEN "Token already processed"
    ELSE IF MatchedDraft(tok) # 0 /\ drafts[MatchedDraft(tok)].uploadedFiles > 0
    THEN "User already has files"
    ELSE "Webhook processed"

\* the message of the 200 response to a delivery (sid, tok) in the current
\* state; "Webhook processed" ends every path that reaches the last line
WebhookAnswer(sid, tok) ==
    IF sid \in processedSubmissions THEN "Already processed"
    ELSE IF sid \in processingSubmissions THEN "Currently processing"
    ELSE IF tok # 0 /\ tok \in processedTokens THEN "Token already processed"
    ELSE IF MatchedDraft(tok) # 0 /\ drafts[MatchedDraft(tok)].uploadedFiles > 0
    THEN "User already has files"
    ELSE "Webhook processed"

\* WebhookStatus that answers a 500 when no draft matches the token
WebhookStatus_ErrorOnNoMatch(sid, tok) ==
    IF WebhookAnswer(sid, tok) = "Webhook processed" /\ MatchedDraft(tok) = 0
    THEN 500 ELSE 200

\* the status of the response to a delivery (sid, tok): every res.status(...)
\* on the handler's paths is res.status(200); the 500 of the outer catch needs
\* an exception, and no statement outside the inner try/catch raises one
WebhookStatus(sid, tok) ==
    CASE WebhookAnswer(sid, tok) = "Already processed" -> 200
      [] WebhookAnswer(sid, tok) = "Currently processing" -> 200
      [] WebhookAnswer(sid, tok) = "Token already processed" -> 200
      [] WebhookAnswer(sid, tok) = "User already has files" -> 200
      [] OTHER -> 200

\* the handler of POST /webhook/jotform for submissionID sid and price_token
\* tok (0: none), with d the draft the token matched (0: none) and e what the
\* call of transferJotformFilesToGoogleDrive did
WebhookBody(sid, tok, d, e) ==
    LET toks == IF tok = 0 THEN {} ELSE {tok}
        P1 == processedSubmissions \cup {sid}
        G1 == processingSubmissions \cup {sid}
        T1 == processedTokens \cup toks
        new == [NoTask EXCEPT !.kind = "hook", !.user = drafts[d].owner,
                              !.draft = d, !.sid = sid, !.token = tok]
        a  == WebhookAnswer(sid, tok)
    IN
    /\ nHooks < MaxHooks
    /\ nHooks' = nHooks + 1
    /\ whLast' = [sid |-> sid, token |-> tok, msg |-> a,
                  code |-> WebhookStatus(sid, tok), held |-> PollHolds(sid)]
    /\ matchedHooks' = IF d # 0 THEN [matchedHooks EXCEPT ![sid] = @ + 1]
                       ELSE matchedHooks
    /\ IF a \in {"Already processed", "Currently processing",
                 "Token already processed"}
       THEN UNCHANGED <<trackerVars, drafts, tasks>>
       ELSE IF d = 0
       THEN \* no match: the id stays in processedSubmissions
            /\ processedSubmissions' = P1
            /\ processingSubmissions' = G1 \ {sid}
            /\ processedTokens' = T1 \ toks
            /\ UNCHANGED <<drafts, tasks>>
       ELSE IF drafts[d].uploadedFiles > 0
       THEN /\ processedSubmissions' = P1
            /\ processingSubmissions' = G1 \ {sid}
            /\ processedTokens' = T1
            /\ UNCHANGED <<drafts, tasks>>
       ELSE IF e.claimed
       THEN \* the transfer is started
            /\ tasks' = Add([new EXCEPT !.pc = "xfer"])
            /\ processedSubmissions' = e.processed
            /\ processingSubmissions' = e.processing
            /\ processedTokens' = T1
            /\ UNCHANGED drafts
       ELSE IF e.ret > 0
       THEN \* the transfer returned files at once
            /\ tasks' = Add([new EXCEPT !.pc = "load", !.files = e.ret])
            /\ drafts' = [drafts EXCEPT ![d].uploadedFiles = e.ret,
                                        ![d].jotformSubmissionId = sid]
            /\ processedSubmissions' = e.processed
            /\ processingSubmissions' = e.processing
            /\ processedTokens' = T1
       ELSE \* the transfer returned no file: the marks are taken back
            /\ processedSubmissions' = e.processed \ {sid}
            /\ processingSubmissions' = e.processing \ {sid}
            /\ processedTokens' = T1 \ toks
            /\ UNCHANGED <<drafts, tasks>>
    /\ UNCHANGED <<nDrafts, submissions, tokenToUserId, nTokens,
                   processingConfirmations, notificationsSent, configVars,
                   formSubs, remoteVars, notifications, timers, nPolls>>
    /\ UNCHANGED <<screens, cancelled, fault, calc, fastVars>>

\* Webhook with a fallback for a token that matches nothing (the entry of a
\* user who awaits the form is taken) and the transfer called before the id
\* is marked
Webhook_FallbackMatch(sid, tok) ==
    LET waiting == {u \in Users : /\ submissions[u] # 0
                                  /\ drafts[submissions[u]].status =
                                        "awaiting_form_completion"}
        d == IF MatchedDraft(tok) # 0 THEN MatchedDraft(tok)
             ELSE IF waiting = {} THEN 0
             ELSE submissions[CHOOSE u \in waiting : TRUE]
    IN
    WebhookBody(sid, tok, d,
                TransferEntry(sid, drafts[d].uploadedFiles,
                              processedSubmissions, processingSubmissions))

\* POST /webhook/jotform: the id is marked processed and processing before the
\* draft is looked up and the transfer is called
Webhook(sid, tok) ==
    LET d == MatchedDraft(tok) IN
    WebhookBody(sid, tok, d,
                TransferEntry(sid, drafts[d].uploadedFiles,
                              processedSubmissions \cup {sid},
                              processingSubmissions \cup {sid}))

\* ------------------------------------------------------ the specification
Next ==
    \/ \E u \in Users : SubmissionForm(u)
    \/ \E u \in Users : CancelSubmission(u)
    \/ \E u \in Users : ConfirmBegin(u)
    \/ \E t \in Tasks : ConfirmMint(t)
    \/ \E t \in Tasks : ConfirmFormCreated(t)
    \/ \E t \in Tasks : ConfirmFormFailed(t)
    \/ \E d \in DraftIds, f \in 0..MaxFiles : FormSubmit(d, f)
    \/ \E u \in Users : PollBegin(u)
    \/ \E t \in Tasks : PollChecks(t)
    \/ \E t \in Tasks : PollDelete(t)
    \/ \E t \in Tasks : PollMark(t)
    \/ \E t \in Tasks, r \in 0..MaxSubs : FetchResult(t, r)
    \/ \E t \in Tasks : PollPreClaim(t)
    \/ \E t \in Tasks : Claim(t)
    \/ \E t \in Tasks, n \in 0..MaxFiles : TransferDone(t, n)
    \/ \E t \in Tasks : PollSave(t)
    \/ \E t \in Tasks, ok \in BOOLEAN : LoadResult(t, ok)
    \/ \E t \in Tasks, ok \in BOOLEAN : ShaResult(t, ok)
    \/ \E t \in Tasks, ok \in BOOLEAN : PutResult(t, ok)
    \/ \E t \in Tasks : Notify(t)
    \/ \E t \in Tasks, ok \in BOOLEAN : SendResult(t, ok)
    \/ \E u \in Users : TimerFire(u)
    \/ \E sid \in SubIds, tok \in 0..MaxTokens : Webhook(sid, tok)

Spec == Init /\ [][Next]_vars

\* ------------------------------------------------- the collection stage
\* every variable but the drafts and the messages
collectFrame ==
    <<nDrafts, submissions, tokenToUserId, nTokens, processingConfirmations,
      trackerVars, notificationsSent, configVars, formSubs, remoteVars,
      notifications, tasks, timers, countVars, cancelled, fault, calc, fastVars>>

\* submission_form: the buttons of its reply for the stored object data
ProjectRow(data) ==
    LET next == CHOOSE i \in 1..(MaxAgents + 1) :
                   /\ i <= MaxAgents => ~data.agents[i].name
                   /\ \A j \in 1..(i - 1) : data.agents[j].name
    IN IF hasConsultants(data)
       THEN {AgentButton[1]}
            \cup {AgentButton[i] : i \in {j \in Slots : j > 1 /\ data.agents[j].name}}
            \cup {AgentButton[i] : i \in {next} \cap Slots}
            \cup (IF data.customer THEN {"proceed_to_confirmation"}
                                   ELSE {"show_customer_form"})
       ELSE {AgentButton[1]}

\* submission_form, with the message it replies
SubmissionFormReply(u, m) ==
    /\ screens[m] = {}
    /\ StoreProject(u)
    /\ Show(m, ProjectRow(NewDraft(u)))

\* submission_form for a user who has an entry that no running handler holds:
\* the object it replaces is garbage, and the new one takes its place
ResubmitProject(u, m) ==
    LET d == submissions[u] IN
    /\ d # 0
    /\ \A t \in Tasks : t.draft # d
    /\ screens[m] = {}
    /\ drafts' = [drafts EXCEPT ![d] = NewDraft(u)]
    /\ Show(m, ProjectRow(NewDraft(u)))
    /\ UNCHANGED collectFrame

\* agent_form_<step>: the modal of consultant step, opened from message m
AgentForm(u, m, step, named, p) ==
    LET d == submissions[u] IN
    /\ AgentButton[step] \in screens[m]
    /\ IF d = 0
       THEN /\ Show(m, RestartRow)
            /\ UNCHANGED drafts
       ELSE LET agents == drafts[d].agents
                entry  == IF named
                          THEN [name |-> TRUE, percentage |-> p, commission |-> -1]
                          ELSE NoAgent
                stored == IF named \/ p # 0
                          THEN [agents EXCEPT ![step] = entry] ELSE agents
                back   == IF step = 1 THEN {"show_agent_form_back_1"}
                                      ELSE {AgentButton[step - 1]}
                row    == {AgentButton[i] : i \in {step + 1} \cap Slots}
                          \cup {"show_customer_form"} \cup back
                          \cup (IF drafts[d].customer
                                THEN {"proceed_to_confirmation"} ELSE {})
            IN /\ drafts' = [drafts EXCEPT ![d].agents = stored]
               /\ Show(m, row)
    /\ UNCHANGED collectFrame

\* customer_form without its validation
CustomerForm_NoValidation(u, m) ==
    LET d == submissions[u] IN
    /\ screens[m] \cap {"show_customer_form", "edit_customer_details"} # {}
    /\ IF d = 0
       THEN /\ Show(m, RestartRow)
            /\ UNCHANGED drafts
       ELSE LET agents == FilterNamed(drafts[d].agents) IN
            /\ drafts' = [drafts EXCEPT ![d].customer = TRUE,
                             ![d].agents = calculateCommissions(agents)]
            /\ Show(m, ConfirmRow)
    /\ UNCHANGED collectFrame

\* customer_form: the customer modal, opened from message m
CustomerForm(u, m) ==
    LET d == submissions[u] IN
    /\ screens[m] \cap {"show_customer_form", "edit_customer_details"} # {}
    /\ IF d = 0
       THEN /\ Show(m, RestartRow)
            /\ UNCHANGED drafts
       ELSE LET agents == FilterNamed(drafts[d].agents) IN
            IF ~validateAgentPercentages(agents)
            THEN /\ drafts' = [drafts EXCEPT ![d].customer = TRUE,
                                             ![d].agents = agents]
                 /\ \E n \in Msgs :
                       /\ screens[n] = {}
                       /\ \A j \in Msgs : screens[j] = {} => n <= j
                       /\ Show(n, EditRow)
            ELSE /\ drafts' = [drafts EXCEPT ![d].customer = TRUE,
                                  ![d].agents = calculateCommissions(agents)]
                 /\ Show(m, ConfirmRow)
    /\ UNCHANGED collectFrame

\* proceed_to_confirmation
ProceedToConfirmation(u, m) ==
    LET d == submissions[u] IN
    /\ "proceed_to_confirmation" \in screens[m]
    /\ IF d = 0
       THEN /\ Show(m, RestartRow)
            /\ UNCHANGED drafts
       ELSE LET agents == FilterNamed(drafts[d].agents) IN
            IF ~validateAgentPercentages(agents)
            THEN /\ drafts' = [drafts EXCEPT ![d].agents = agents]
                 /\ Show(m, EditRow)
            ELSE /\ drafts' = [drafts EXCEPT
                                  ![d].agents = calculateCommissions(agents)]
                 /\ Show(m, ConfirmRow)
    /\ UNCHANGED collectFrame

\* back_to_confirmation
BackToConfirmation(u, m) ==
    LET d == submissions[u] IN
    /\ "back_to_confirmation" \in screens[m]
    /\ IF d = 0
       THEN /\ Show(m, {})
            /\ UNCHANGED drafts
       ELSE LET agents == FilterNamed(drafts[d].agents) IN
            /\ drafts' = [drafts EXCEPT ![d].agents =
                             IF \E i \in Slots : agents[i].name
                             THEN calculateCommissions(agents) ELSE agents]
            /\ Show(m, ConfirmRow)
    /\ UNCHANGED collectFrame

\* edit_details
EditDetails(m) ==
    /\ "edit_details" \in screens[m]
    /\ Show(m, {"edit_project_details", "edit_agent_details",
                "edit_customer_details", "back_to_confirmation"})
    /\ UNCHANGED <<drafts, collectFrame>>

\* edit_agent_details
EditAgentDetails(m) ==
    /\ "edit_agent_details" \in screens[m]
    /\ Show(m, {AgentButton[i] : i \in Slots} \cup {"back_to_confirmation"})
    /\ UNCHANGED <<drafts, collectFrame>>

\* edit_agent_percentages
\* data.agents[i] is read with no test of data: with no entry the handler
\* throws, nothing catches it and the message is left as it was
EditAgentPercentages(u, m) ==
    LET d == submissions[u] IN
    /\ "edit_agent_percentages" \in screens[m]
    /\ IF d = 0
       THEN /\ fault' = fault \cup {"edit_agent_percentages"}
            /\ UNCHANGED screens
       ELSE /\ Show(m, {AgentButton[i] :
                           i \in {j \in Slots : drafts[d].agents[j].name}}
                      \cup {"show_customer_form"})
            /\ UNCHANGED fault
    /\ UNCHANGED <<drafts, nDrafts, submissions, tokenToUserId, nTokens,
                   processingConfirmations, trackerVars, notificationsSent,
                   configVars, formSubs, remoteVars, notifications, tasks,
                   timers, countVars, cancelled, calc, fastVars>>

\* messageCreate for a message of user u without attachments: the test reads
\* data.status.startsWith before the attachments are counted, outside the try;
\* an entry without a status makes it throw
MessageCreate(u) ==
    LET d == submissions[u] IN
    /\ d # 0
    /\ drafts[d].status = "none"
    /\ fault' = fault \cup {"messageCreate"}
    /\ UNCHANGED <<drafts, nDrafts, submissions, tokenToUserId, nTokens,
                   processingConfirmations, trackerVars, notificationsSent,
                   configVars, formSubs, remoteVars, notifications, tasks,
                   timers, countVars, screens, cancelled, calc, fastVars>>

\* cancel_submission, with the message it empties
CancelClick(u, m) ==
    /\ "cancel_submission" \in screens[m]
    /\ DeleteEntry(u)
    /\ Show(m, {})

\* confirm_submission pressed on message m
ConfirmClick(u, m) == ConfirmStart(u, m)

\* view_preserved_data: a reply in the first free slot
ViewPreservedData(u, m) ==
    /\ "view_preserved_data" \in screens[m]
    /\ submissions[u] # 0
    /\ \E n \in Msgs :
          /\ screens[n] = {}
          /\ \A j \in Msgs : screens[j] = {} => n <= j
          /\ Show(n, {"retry_jotform", "back_to_confirmation"})
    /\ UNCHANGED <<drafts, collectFrame>>

\* retry_jotform up to its first await (deferUpdate)
RetryBegin(u, m) ==
    /\ "retry_jotform" \in screens[m]
    /\ \A t \in Tasks : t.kind # "retry"
    /\ tasks' = Add([NoTask EXCEPT !.kind = "retry", !.pc = "r_defer",
                                   !.user = u, !.msg = m])
    /\ UNCHANGED <<drafts, nDrafts, submissions, tokenToUserId, nTokens,
                   processingConfirmations, trackerVars, notificationsSent,
                   configVars, formSubs, remoteVars, notifications, timers,
                   countVars, screens, cancelled, fault, calc, fastVars>>

\* retry_jotform after deferUpdate: createJotformUpload(data), no token
RetryJotform(t) ==
    LET d == submissions[t.user] IN
    /\ t.pc = "r_defer"
    /\ tasks' = Remove(t)
    /\ IF d = 0
       THEN /\ Show(t.msg, RestartRow)
            /\ UNCHANGED drafts
       ELSE IF webhookUrlSet
            THEN /\ drafts' = [drafts EXCEPT ![d].hasForm = TRUE,
                                  ![d].formToken = 0,
                                  ![d].status = "awaiting_form_completion"]
                 /\ Show(t.msg, LinkRow)
            ELSE /\ Show(t.msg, AlternativeRow)
                 /\ UNCHANGED drafts
    /\ UNCHANGED <<nDrafts, submissions, tokenToUserId, nTokens,
                   processingConfirmations, trackerVars, notificationsSent,
                   configVars, formSubs, remoteVars, notifications, timers,
                   countVars, cancelled, fault, calc, fastVars>>

\* the user dismisses a message
Dismiss(m) ==
    /\ screens[m] # {}
    /\ Show(m, {})
    /\ UNCHANGED <<drafts, collectFrame>>

FormNext ==
    \/ \E u \in Users, m \in Msgs : SubmissionFormReply(u, m)
    \/ \E u \in Users, m \in Msgs, step \in Slots, named \in BOOLEAN, p \in Pcts :
          AgentForm(u, m, step, named, p)
    \/ \E u \in Users, m \in Msgs : CustomerForm(u, m)
    \/ \E u \in Users, m \in Msgs : ProceedToConfirmation(u, m)
    \/ \E u \in Users, m \in Msgs : BackToConfirmation(u, m)
    \/ \E m \in Msgs : EditDetails(m)
    \/ \E m \in Msgs : EditAgentDetails(m)
    \/ \E u \in Users, m \in Msgs : EditAgentPercentages(u, m)
    \/ \E u \in Users, m \in Msgs : CancelClick(u, m)
    \/ \E u \in Users, m \in Msgs : ConfirmClick(u, m)
    \/ \E t \in Tasks : ConfirmMint(t)
    \/ \E t \in Tasks : ConfirmFormCreated(t)
    \/ \E t \in Tasks : ConfirmFormFailed(t)
    \/ \E u \in Users, m \in Msgs : ViewPreservedData(u, m)
    \/ \E u \in Users, m \in Msgs : RetryBegin(u, m)
    \/ \E t \in Tasks : RetryJotform(t)
    \/ \E m \in Msgs : Dismiss(m)

\* a deployment with JOTFORM_API_KEY set
FormInit == Init /\ jotformApiKeySet

FormSpec == FormInit /\ [][FormNext]_vars

\* a deployment with a webhook URL and no JOTFORM_API_KEY: confirm_submission
\* never creates the form, retry_jotform does
RetryInit == Init /\ webhookUrlSet /\ ~jotformApiKeySet

RetryNext ==
    \/ \E u \in Users, m \in Msgs : SubmissionFormReply(u, m)
    \/ \E u \in Users, m \in Msgs, step \in Slots, named \in BOOLEAN, p \in Pcts :
          AgentForm(u, m, step, named, p)
    \/ \E u \in Users, m \in Msgs : CustomerForm(u, m)
    \/ \E u \in Users, m \in Msgs : ProceedToConfirmation(u, m)
    \/ \E u \in Users, m \in Msgs : BackToConfirmation(u, m)
    \/ \E m \in Msgs : EditDetails(m)
    \/ \E m \in Msgs : EditAgentDetails(m)
    \/ \E u \in Users, m \in Msgs : EditAgentPercentages(u, m)
    \/ \E u \in Users, m \in Msgs : CancelClick(u, m)
    \/ \E u \in Users, m \in Msgs : ConfirmClick(u, m)
    \/ \E t \in Tasks : ConfirmMint(t)
    \/ \E t \in Tasks : ConfirmFormFailed(t)
    \/ \E u \in Users, m \in Msgs : ViewPreservedData(u, m)
    \/ \E u \in Users, m \in Msgs : RetryBegin(u, m)
    \/ \E t \in Tasks : RetryJotform(t)
    \/ \E m \in Msgs : Dismiss(m)

RetrySpec == RetryInit /\ [][RetryNext]_vars

\* the collection stage alone, with the project modal submitted again
EditNext ==
    \/ \E u \in Users, m \in Msgs : SubmissionFormReply(u, m)
    \/ \E u \in Users, m \in Msgs : ResubmitProject(u, m)
    \/ \E u \in Users, m \in Msgs, step \in Slots, named \in BOOLEAN, p \in Pcts :
          AgentForm(u, m, step, named, p)
    \/ \E u \in Users, m \in Msgs : CustomerForm(u, m)
    \/ \E u \in Users, m \in Msgs : ProceedToConfirmation(u, m)
    \/ \E u \in Users, m \in Msgs : BackToConfirmation(u, m)
    \/ \E m \in Msgs : EditDetails(m)
    \/ \E m \in Msgs : EditAgentDetails(m)
    \/ \E u \in Users, m \in Msgs : EditAgentPercentages(u, m)
    \/ \E u \in Users, m \in Msgs : CancelClick(u, m)
    \/ \E u \in Users : MessageCreate(u)
    \/ \E m \in Msgs : Dismiss(m)

EditSpec == Init /\ [][EditNext]_vars

\* ------------------------------------------- the two functions, called alone
\* the net prices typed: "1,200,000", "1200000", "100001", "201", "12x", "x",
\* "x1", ""
NettPrices ==
    { <<"1", ",", "2", "0", "0", ",", "0", "0", "0">>,
      <<"1", "2", "0", "0", "0", "0", "0">>,
      <<"1", "0", "0", "0", "0", "1">>,
      <<"2", "0", "1">>,
      <<"1", "2", "x">>,
      <<"x">>,
      <<"x", "1">>,
      <<>> }

\* the rates typed: "3", "1", "x"
CommissionRates == { <<"3">>, <<"1">>, <<"x">> }

\* the shares of the lists: 0, 25, 40, 49.98, 49.99, 50, 50.01, 50.02, 60, 75,
\* 100
Shares == {0, 5000, 8000, 9996, 9998, 10000, 10002, 10004, 12000, 15000, 20000}

AgentLists ==
    [Slots -> {[name |-> n, percentage |-> p, commission |-> -1] :
                  n \in BOOLEAN, p \in Shares}]

\* everything but calc
programVars ==
    <<drafts, nDrafts, submissions, tokenToUserId, nTokens,
      processingConfirmations, trackerVars, notificationsSent, configVars,
      formSubs, remoteVars, notifications, tasks, timers, countVars, screens,
      cancelled, fault, fastVars>>

CalcInit ==
    /\ drafts = [d \in DraftIds |-> NoDraft]
    /\ nDrafts = 0
    /\ submissions = [u \in Users |-> 0]
    /\ tokenToUserId = [k \in Tokens |-> 0]
    /\ nTokens = 0
    /\ processingConfirmations = {}
    /\ processedSubmissions = {}
    /\ processingSubmissions = {}
    /\ processedTokens = {}
    /\ notificationsSent = {}
    /\ webhookUrlSet = TRUE
    /\ jotformApiKeySet = TRUE
    /\ formSubs = <<>>
    /\ backupExists = FALSE
    /\ backup = <<>>
    /\ notifications = EmptyBag
    /\ tasks = EmptyBag
    /\ timers = [u \in Users |-> 0]
    /\ nPolls = 0
    /\ nHooks = 0
    /\ whLast = NoHook
    /\ matchedHooks = [s \in SubIds |-> 0]
    /\ screens = [m \in Msgs |-> {}]
    /\ cancelled = {}
    /\ fault = {}
    /\ fastCommissionPercentages = <<>>
    /\ fastSettings = NoFile
    /\ \/ \E agents \in AgentLists :
             calc = [NoCall EXCEPT !.fn = "validateAgentPercentages",
                                   !.agents = agents]
       \/ \E nettPrice \in NettPrices, commissionRate \in CommissionRates,
             agents \in AgentLists :
             calc = [NoCall EXCEPT !.fn = "calculateCommissions",
                                   !.nettPrice = nettPrice,
                                   !.commissionRate = commissionRate,
                                   !.agents = agents]

\* validateAgentPercentages(agents) returns
CallValidate ==
    /\ calc.fn = "validateAgentPercentages"
    /\ ~calc.done
    /\ calc' = [calc EXCEPT !.done = TRUE,
                            !.valid = validateAgentPercentages(calc.agents)]
    /\ UNCHANGED programVars

\* calculateCommissions(nettPrice, commissionRate, agents) returns
CallCalculate ==
    /\ calc.fn = "calculateCommissions"
    /\ ~calc.done
    /\ \E c \in commissionStrings(calc.nettPrice, calc.commissionRate,
                                  calc.agents) :
          calc' = [calc EXCEPT !.done = TRUE,
                      !.out = [i \in Slots |->
                                 [name |-> calc.agents[i].name,
                                  percentage |-> calc.agents[i].percentage,
                                  commission |-> c[i]]]]
    /\ UNCHANGED programVars

CalcNext == CallValidate \/ CallCalculate

CalcSpec == CalcInit /\ [][CalcNext]_vars

\* ================================================================ claims
RecordsOf(sid) == {i \in DOMAIN backup : backup[i].sid = sid}
SentFor(sid) == {n \in BagToSet(notifications) : n.sid = sid}

RecordsOfToken(tok) == {i \in DOMAIN backup : backup[i].token = tok}

\* number of entries of bag B that satisfy test
CountIn(B, test(_)) ==
    LET S == {x \in BagToSet(B) : test(x)} IN
    BagCardinality([x \in S |-> B[x]])

\* triggers inside the transfer of sid / of draft d
InTransfer(sid) == CountIn(tasks, LAMBDA t : t.pc = "xfer" /\ t.sid = sid)
TransfersOf(d) == CountIn(tasks, LAMBDA t : t.pc = "xfer" /\ t.draft = d)
InFlight(sid) == CountIn(tasks, LAMBDA t : t.sid = sid)
SentCount(sid) == CountIn(notifications, LAMBDA n : n.sid = sid)

\* C1: for every submissionId and every interleaving of webhooks, manual
\* polls and scheduled re-polls, the backup list never holds more than one
\* Submission Record carrying that submissionId.
C1_AtMostOneRecordPerSubmission ==
    \A sid \in SubIds : Cardinality(RecordsOf(sid)) <= 1

\* a delivery (sid, tok) that matches a draft awaiting the form, for an
\* external submission with a downloadable file, with nothing else under way
FreshMatched(sid, tok) ==
    /\ MatchedDraft(tok) # 0
    /\ drafts[MatchedDraft(tok)].uploadedFiles = 0
    /\ sid \in 1..Len(formSubs)
    /\ formSubs[sid].token = tok
    /\ formSubs[sid].files >= 1
    /\ sid \notin processedSubmissions \cup processingSubmissions
    /\ tok \notin processedTokens
    /\ tasks = EmptyBag

\* C2: a webhook that carries the session token of a draft awaiting the form,
\* for a submission with a downloadable file, is handled by transferring the
\* files: the handling either goes on with the transfer or has completed the
\* draft (one record, one notification, status completed).
C2_WebhookAloneCompletes ==
    [][\A sid \in SubIds, tok \in Tokens :
          (Webhook(sid, tok) /\ FreshMatched(sid, tok)) =>
             \/ InFlight(sid)' > 0
             \/ /\ drafts'[MatchedDraft(tok)].status = "completed"
                /\ Cardinality(RecordsOf(sid))' = 1
                /\ SentCount(sid)' = 1]_vars

\* C3: once the webhook has fired twice for a submission id that matched a
\* draft awaiting the form and has a transferable file, and nothing is under
\* way for it any more, exactly one record and one notification exist.
C3_TwoWebhooksOneRecord ==
    \A sid \in SubIds :
       (/\ matchedHooks[sid] >= 2
        /\ sid \in 1..Len(formSubs)
        /\ formSubs[sid].files >= 1
        /\ InFlight(sid) = 0)
       => (Cardinality(RecordsOf(sid)) = 1 /\ SentCount(sid) = 1)

\* C4: at most one trigger at a time is inside the transfer of a submission
\* id, and while one is, the id stays in the processing set (a denied attempt
\* leaves the holder's membership intact).
C4_ExclusiveClaim ==
    \A sid \in SubIds :
       /\ InTransfer(sid) <= 1
       /\ InTransfer(sid) = 1 => sid \in processingSubmissions

\* C5: a webhook delivered while a manual poll holds the claim of the same
\* submission id is answered "Currently processing" (a 200, not an error),
\* starts no transfer, and leaves the poll as the one holder of the claim.
C5_LoserAlreadyProcessing ==
    [][\A sid \in SubIds, tok \in 0..MaxTokens :
          (Webhook(sid, tok) /\ PollHolds(sid)) =>
             /\ WebhookAnswer(sid, tok) = "Currently processing"
             /\ PollHolds(sid)'
             /\ \A t \in BagToSet(tasks') : t.kind # "hook"
             /\ UNCHANGED <<tasks, drafts, trackerVars, backup, notifications>>]_vars

C5_Witness ==
    /\ whLast.msg = "Currently processing"
    /\ whLast.held
    /\ PollHolds(whLast.sid)

\* a trigger's handling ends after the record was saved and the notification
\* was attempted
Completes(t) ==
    /\ t.kind \in {"poll", "timer", "hook"}
    /\ t.pc \in {"notify", "send", "p_final"}
    /\ tasks' = Remove(t)

\* C6: when processing succeeds through any trigger, then afterwards the id is
\* processed and not processing, the draft's token is no longer a key of the
\* token map, and the draft has files.
C6_SuccessPostconditions ==
    [][\A t \in Tasks :
          Completes(t) =>
             /\ t.sid \in processedSubmissions'
             /\ t.sid \notin processingSubmissions'
             /\ tokenToUserId'[drafts[t.draft].sessionToken] = 0
             /\ drafts'[t.draft].uploadedFiles > 0]_vars

\* C7: once a draft has files, no later step starts another transfer for it,
\* and the backup list never holds a second record of that draft.
C7_NoSecondRecordForDraft ==
    [][\A d \in 1..nDrafts :
          drafts[d].uploadedFiles > 0 =>
             /\ TransfersOf(d)' <= TransfersOf(d)
             /\ Cardinality(RecordsOfToken(drafts[d].sessionToken))' <= 1]_vars

\* the claimed transfer of t ends with no file
TransferFails(t) ==
    /\ t.pc = "xfer"
    /\ tasks' = Remove(t)

\* C8: when a claimed attempt fails, then afterwards the id is in neither
\* tracker set, the token is still bound, no record was appended, the draft's
\* status was not advanced, and the id can be claimed again.
C8_FailureReleasesClaim ==
    [][\A t \in Tasks :
          TransferFails(t) =>
             /\ t.sid \notin processingSubmissions'
             /\ t.sid \notin processedSubmissions'
             /\ tokenToUserId'[drafts[t.draft].sessionToken] # 0
             /\ backup' = backup
             /\ drafts'[t.draft].status = drafts[t.draft].status
             /\ drafts'[t.draft].status # "completed"
             /\ TransferEntry(t.sid, drafts'[t.draft].uploadedFiles,
                              processedSubmissions',
                              processingSubmissions').claimed]_vars

\* C9: every record of the backup list has files, and a draft that was
\* confirmed but has no files has no record.
C9_RecordsHaveFiles ==
    /\ \A i \in DOMAIN backup : backup[i].files > 0
    /\ \A d \in 1..nDrafts :
          (drafts[d].dataConfirmed /\ drafts[d].uploadedFiles = 0)
             => RecordsOfToken(drafts[d].sessionToken) = {}

C9_Witness ==
    \E d \in 1..nDrafts, e \in 1..nDrafts :
       /\ drafts[d].dataConfirmed
       /\ RecordsOfToken(drafts[d].sessionToken) # {}
       /\ drafts[e].status = "awaiting_form_completion"

\* C10: a webhook with no token, or with a token that is not a key of the token
\* map, is ignored: no draft and no entry changes, nothing is transferred,
\* saved or notified.
C10_UnmatchedWebhookIgnored ==
    [][\A sid \in SubIds, tok \in 0..MaxTokens :
          (Webhook(sid, tok) /\ (tok = 0 \/ tokenToUserId[tok] = 0)) =>
             UNCHANGED <<drafts, submissions, tasks, remoteVars, notifications,
                         notificationsSent>>]_vars

C10_Witness ==
    /\ whLast.sid # 0
    /\ whLast.token = 0
    /\ whLast.msg = "Webhook processed"
    /\ \E d \in 1..nDrafts : /\ drafts[d].status = "awaiting_form_completion"
                             /\ submissions[drafts[d].owner] = d

\* ------------------------------------------- deletions of saved records
\* submissions.json holds records of earlier submissions; nothing is under way
SaveInit ==
    /\ drafts = [d \in DraftIds |-> NoDraft]
    /\ nDrafts = 0
    /\ submissions = [u \in Users |-> 0]
    /\ tokenToUserId = [k \in Tokens |-> 0]
    /\ nTokens = 0
    /\ processingConfirmations = {}
    /\ processedSubmissions = {}
    /\ processingSubmissions = {}
    /\ processedTokens = {}
    /\ notificationsSent = {}
    /\ webhookUrlSet \in BOOLEAN
    /\ jotformApiKeySet \in BOOLEAN
    /\ formSubs = <<>>
    /\ backupExists = TRUE
    /\ backup = [i \in 1..SavedRecords |->
                    [user |-> 1, sid |-> i, token |-> i, files |-> 1]]
    /\ notifications = EmptyBag
    /\ tasks = EmptyBag
    /\ timers = [u \in Users |-> 0]
    /\ nPolls = 0
    /\ nHooks = 0
    /\ whLast = NoHook
    /\ matchedHooks = [s \in SubIds |-> 0]
    /\ screens = [m \in Msgs |-> {}]
    /\ cancelled = {}
    /\ fault = {}
    /\ calc = NoCall
    /\ fastCommissionPercentages = <<>>
    /\ fastSettings = NoFile

SaveNext ==
    \/ \E i \in 0..SavedRecords : DeleteBegin(i)
    \/ \E t \in Tasks, ok \in BOOLEAN : DeleteLoad(t, ok)
    \/ \E t \in Tasks, ok \in BOOLEAN : ShaResult(t, ok)
    \/ \E t \in Tasks, ok \in BOOLEAN : PutResult(t, ok)
    \/ \E t \in Tasks : DeleteReply(t)

SaveSpec == SaveInit /\ [][SaveNext]_vars

\* ------------------------------------------------------- the bulk delete
\* confirm_bulk_delete_<indices> up to its first await (loadBackupFromGitHub);
\* the indices of the custom id are distinct (bulk_delete builds it from a Set)
BulkDeleteBegin(S) ==
    /\ BagCardinality(tasks) < MaxBulk
    /\ tasks' = Add([NoTask EXCEPT !.kind = "bulk", !.pc = "b_load",
                                   !.indices = S])
    /\ UNCHANGED <<drafts, nDrafts, submissions, tokenToUserId, nTokens,
                   processingConfirmations, trackerVars, notificationsSent,
                   configVars, formSubs, remoteVars, notifications, timers,
                   countVars, screens, cancelled, fault, calc, fastVars>>

\* the largest of a set of indices
Highest(S) == CHOOSE i \in S : \A j \in S : j <= i

\* the smallest of a set of indices
Lowest(S) == CHOOSE i \in S : \A j \in S : i <= j

\* backupData.splice(index, 1) for any index: one outside the list removes
\* nothing
SpliceAt(list, i) == IF i < Len(list) THEN Splice(list, i) ELSE list

RECURSIVE SpliceAll_Ascending(_, _)
\* the loop over the indices sorted upwards
SpliceAll_Ascending(list, S) ==
    IF S = {} THEN list
    ELSE SpliceAll_Ascending(SpliceAt(list, Lowest(S)), S \ {Lowest(S)})

RECURSIVE SpliceAll(_, _)
\* for (const index of indices) backupData.splice(index, 1), the indices
\* sorted by (a, b) => b - a
SpliceAll(list, S) ==
    IF S = {} THEN list
    ELSE SpliceAll(SpliceAt(list, Highest(S)), S \ {Highest(S)})

\* confirm_bulk_delete_: loadBackupFromGitHub answers; an index outside the
\* loaded list ends the handler, else the entries are spliced out and
\* saveBackupToGitHub is called
BulkDeleteLoad(t, ok) ==
    LET loaded == IF ok /\ backupExists THEN backup ELSE <<>>
        invalidIndices == {i \in t.indices : i < 0 \/ i >= Len(loaded)} IN
    /\ t.pc = "b_load"
    /\ tasks' = IF invalidIndices # {}
                THEN Remove(t)
                ELSE Replace(t, [t EXCEPT !.list = SpliceAll(loaded, t.indices),
                                          !.retries = SaveRetries,
                                          !.pc = "sha"])
    /\ UNCHANGED <<drafts, nDrafts, submissions, tokenToUserId, nTokens,
                   processingConfirmations, trackerVars, notificationsSent,
                   configVars, formSubs, remoteVars, notifications, timers,
                   countVars, screens, cancelled, fault, calc, fastVars>>

BulkInit ==
    /\ drafts = [d \in DraftIds |-> NoDraft]
    /\ nDrafts = 0
    /\ submissions = [u \in Users |-> 0]
    /\ tokenToUserId = [k \in Tokens |-> 0]
    /\ nTokens = 0
    /\ processingConfirmations = {}
    /\ processedSubmissions = {}
    /\ processingSubmissions = {}
    /\ processedTokens = {}
    /\ notificationsSent = {}
    /\ webhookUrlSet \in BOOLEAN
    /\ jotformApiKeySet \in BOOLEAN
    /\ formSubs = <<>>
    /\ backupExists = TRUE
    /\ backup = [i \in 1..BulkRecords |->
                    [user |-> 1, sid |-> i, token |-> i, files |-> 1]]
    /\ notifications = EmptyBag
    /\ tasks = EmptyBag
    /\ timers = [u \in Users |-> 0]
    /\ nPolls = 0
    /\ nHooks = 0
    /\ whLast = NoHook
    /\ matchedHooks = [s \in SubIds |-> 0]
    /\ screens = [m \in Msgs |-> {}]
    /\ cancelled = {}
    /\ fault = {}
    /\ calc = NoCall
    /\ fastCommissionPercentages = <<>>
    /\ fastSettings = NoFile

BulkNext ==
    \/ \E S \in SUBSET (0..BulkRecords) : S # {} /\ BulkDeleteBegin(S)
    \/ \E t \in Tasks, ok \in BOOLEAN : BulkDeleteLoad(t, ok)
    \/ \E t \in Tasks, ok \in BOOLEAN : ShaResult(t, ok)
    \/ \E t \in Tasks, ok \in BOOLEAN : PutResult(t, ok)
    \/ \E t \in Tasks : DeleteReply(t)

BulkSpec == BulkInit /\ [][BulkNext]_vars

\* ------------------------------------------ chat messages with attachments
MaxAttach == 1   \* messageCreate handlers inside their uploads at once

\* data.status === 'awaiting_files' || data.status.startsWith('awaiting_')
startsWithAwaiting(status) ==
    status \in {"awaiting_files", "awaiting_form_completion"}

AttachInFlight ==
    LET M == {t \in Tasks : t.kind = "message"}
    IN IF M = {} THEN 0 ELSE CopiesIn(CHOOSE t \in M : TRUE, tasks)

\* messageCreate for a message of user u that carries attachments of the
\* allowed types, up to its first await (the download of the attachment)
MessageBegin(u) ==
    LET d == submissions[u] IN
    /\ AttachInFlight < MaxAttach
    /\ d # 0
    /\ startsWithAwaiting(drafts[d].status)
    /\ tasks' = Add([NoTask EXCEPT !.kind = "message", !.pc = "m_upload",
                                   !.user = u, !.draft = d])
    /\ UNCHANGED <<drafts, nDrafts, submissions, tokenToUserId, nTokens,
                   processingConfirmations, trackerVars, notificationsSent,
                   configVars, formSubs, remoteVars, notifications, timers,
                   countVars, screens, cancelled, fault, calc, fastVars>>

\* messageCreate after the uploads: a failure is caught and answered; else
\* the status read again from the same object decides the upload mode, and
\* the object is stored under the user's id
MessageUploaded(t, ok) ==
    LET d == t.draft IN
    /\ t.kind = "message"
    /\ t.pc = "m_upload"
    /\ tasks' = Remove(t)
    /\ IF ok /\ startsWithAwaiting(drafts[d].status)
       THEN /\ drafts' = [drafts EXCEPT ![d].status =
                            IF drafts[d].status = "awaiting_files"
                            THEN "files_uploaded" ELSE "checklist_mode"]
            /\ submissions' = [submissions EXCEPT ![t.user] = d]
       ELSE UNCHANGED <<drafts, submissions>>
    /\ UNCHANGED <<nDrafts, tokenToUserId, nTokens, processingConfirmations,
                   trackerVars, notificationsSent, configVars, formSubs,
                   remoteVars, notifications, timers, countVars, screens,
                   cancelled, fault, calc, fastVars>>

\* a deployment with the API key and a webhook URL whose users also write
\* messages with attachments; GitHub and the notification channel answer
AttachInit == Init /\ webhookUrlSet /\ jotformApiKeySet

AttachNext ==
    \/ \E u \in Users : SubmissionForm(u)
    \/ \E u \in Users : CancelSubmission(u)
    \/ \E u \in Users : ConfirmBegin(u)
    \/ \E t \in Tasks : ConfirmMint(t)
    \/ \E t \in Tasks : ConfirmFormCreated(t)
    \/ \E d \in DraftIds, f \in 0..MaxFiles : FormSubmit(d, f)
    \/ \E u \in Users : PollBegin(u)
    \/ \E t \in Tasks : PollChecks(t)
    \/ \E t \in Tasks : PollDelete(t)
    \/ \E t \in Tasks : PollMark(t)
    \/ \E t \in Tasks, r \in 0..MaxSubs : FetchResult(t, r)
    \/ \E t \in Tasks : PollPreClaim(t)
    \/ \E t \in Tasks : Claim(t)
    \/ \E t \in Tasks, n \in 0..MaxFiles : TransferDone(t, n)
    \/ \E t \in Tasks : PollSave(t)
    \/ \E t \in Tasks : LoadResult(t, TRUE)
    \/ \E t \in Tasks : ShaResult(t, TRUE)
    \/ \E t \in Tasks : PutResult(t, TRUE)
    \/ \E t \in Tasks : Notify(t)
    \/ \E t \in Tasks : SendResult(t, TRUE)
    \/ \E u \in Users : TimerFire(u)
    \/ \E sid \in SubIds, tok \in 0..MaxTokens : Webhook(sid, tok)
    \/ \E u \in Users : MessageBegin(u)
    \/ \E t \in Tasks, ok \in BOOLEAN : MessageUploaded(t, ok)

AttachSpec == AttachInit /\ [][AttachNext]_vars

\* ----------------------------- from the project modal to the stored record
\* a deployment with the API key and a webhook URL; the user fills in the
\* modals, confirms, submits the external form and polls
RecordInit == Init /\ webhookUrlSet /\ jotformApiKeySet

RecordNext ==
    \/ \E u \in Users, m \in Msgs : SubmissionFormReply(u, m)
    \/ \E u \in Users, m \in Msgs : ResubmitProject(u, m)
    \/ \E u \in Users, m \in Msgs, step \in Slots, p \in {Hundred \div 2, Hundred} :
          AgentForm(u, m, step, TRUE, p)
    \/ \E u \in Users, m \in Msgs : CustomerForm(u, m)
    \/ \E u \in Users, m \in Msgs : ConfirmClick(u, m)
    \/ \E t \in Tasks : ConfirmMint(t)
    \/ \E t \in Tasks : ConfirmFormCreated(t)
    \/ \E d \in DraftIds, f \in 0..MaxFiles : FormSubmit(d, f)
    \/ \E u \in Users : PollBegin(u)
    \/ \E t \in Tasks : PollChecks(t)
    \/ \E t \in Tasks : PollDelete(t)
    \/ \E t \in Tasks, r \in 0..MaxSubs : FetchResult(t, r)
    \/ \E t \in Tasks : PollPreClaim(t)
    \/ \E t \in Tasks : Claim(t)
    \/ \E t \in Tasks, n \in 0..MaxFiles : TransferDone(t, n)
    \/ \E t \in Tasks : PollSave(t)
    \/ \E t \in Tasks, ok \in BOOLEAN : LoadResult(t, ok)
    \/ \E t \in Tasks, ok \in BOOLEAN : ShaResult(t, ok)
    \/ \E t \in Tasks, ok \in BOOLEAN : PutResult(t, ok)
    \/ \E t \in Tasks : Notify(t)
    \/ \E t \in Tasks, ok \in BOOLEAN : SendResult(t, ok)

RecordSpec == RecordInit /\ [][RecordNext]_vars

\* ------------------------------------- completions of several users at once
PersistUsers == 2   \* users whose manual polls have moved their files at once
OldRecords == 1     \* records submissions.json can hold before them

\* the records of earlier submissions, of another user
OldList(n) ==
    [i \in 1..n |-> [sid |-> PersistUsers + i, user |-> PersistUsers + 1,
                     files |-> 1, token |-> PersistUsers + i]]

\* every user u of 1..PersistUsers has confirmed a draft (token u), submitted
\* the form (submission u) and pressed check_upload_status; each handler has
\* moved the files and is about to store them in its draft
PersistInit ==
    /\ drafts = [d \in 1..PersistUsers |->
                   [NoDraft EXCEPT !.owner = d,
                                   !.status = "awaiting_form_completion",
                                   !.sessionToken = d, !.dataConfirmed = TRUE,
                                   !.hasForm = TRUE, !.formToken = d]]
    /\ nDrafts = PersistUsers
    /\ submissions = [u \in 1..PersistUsers |-> u]
    /\ tokenToUserId = [k \in 1..PersistUsers |-> k]
    /\ nTokens = PersistUsers
    /\ processingConfirmations = {statusCheckKey(u) : u \in 1..PersistUsers}
    /\ processedSubmissions = 1..PersistUsers
    /\ processingSubmissions = {}
    /\ processedTokens = {}
    /\ notificationsSent = {}
    /\ webhookUrlSet = TRUE
    /\ jotformApiKeySet = TRUE
    /\ formSubs = [s \in 1..PersistUsers |-> [token |-> s, files |-> 1]]
    /\ \E n \in 0..OldRecords : /\ backupExists = (n > 0)
                                /\ backup = OldList(n)
    /\ notifications = EmptyBag
    /\ tasks = SetToBag({[NoTask EXCEPT !.kind = "poll", !.pc = "save0",
                                        !.user = u, !.draft = u, !.sid = u,
                                        !.files = 1] : u \in 1..PersistUsers})
    /\ timers = [u \in 1..PersistUsers |-> 0]
    /\ nPolls = PersistUsers
    /\ nHooks = 0
    /\ whLast = NoHook
    /\ matchedHooks = [s \in 1..PersistUsers |-> 0]
    /\ screens = [m \in Msgs |-> {}]
    /\ cancelled = {}
    /\ fault = {}
    /\ calc = NoCall
    /\ fastCommissionPercentages = <<>>
    /\ fastSettings = NoFile

PersistNext ==
    \/ \E t \in Tasks : PollSave(t)
    \/ \E t \in Tasks, ok \in BOOLEAN : LoadResult(t, ok)
    \/ \E t \in Tasks, ok \in BOOLEAN : ShaResult(t, ok)
    \/ \E t \in Tasks, ok \in BOOLEAN : PutResult(t, ok)
    \/ \E t \in Tasks : Notify(t)
    \/ \E t \in Tasks, ok \in BOOLEAN : SendResult(t, ok)
    \/ \E t \in Tasks : PollDelete(t)

PersistSpec == PersistInit /\ [][PersistNext]_vars

\* ------------------------------------------- the fast commission percentages
MaxFast == 1        \* adjust_fast_comm commands in flight at once

\* the project names typed: "Ab", "ab", "aB", "C"
ProjectNames == {<<"A", "b">>, <<"a", "b">>, <<"a", "B">>, <<"C">>}

\* the percentage option of adjust_fast_comm
Percentages == {0, 25, 100}

LowerOf(c) ==
    CASE c = "A" -> "a"
      [] c = "B" -> "b"
      [] c = "C" -> "c"
      [] OTHER -> c

\* String.prototype.toLowerCase
toLowerCase(str) == [i \in DOMAIN str |-> LowerOf(str[i])]

\* fastCommissionPercentages.has(key)
HasFast(key) == key \in DOMAIN fastCommissionPercentages

\* getFastCommissionPercentage: `map.get(lower-cased name) || 50`; undefined
\* and 0 are the falsy values the map can hold
getFastCommissionPercentage(projectName) ==
    LET key == toLowerCase(projectName) IN
    IF ~HasFast(key) THEN 50
    ELSE IF fastCommissionPercentages[key] = 0 THEN 50
    ELSE fastCommissionPercentages[key]

\* saveFastCommissionPercentage up to its first await: the map is updated and
\* the file content is built from it, then getContent is awaited
SaveFastBegin(projectName, percentage) ==
    LET key == toLowerCase(projectName)
        map == (key :> percentage) @@ fastCommissionPercentages IN
    /\ CountIn(tasks, LAMBDA t : t.kind = "fast") < MaxFast
    /\ fastCommissionPercentages' = map
    /\ tasks' = Add([NoTask EXCEPT !.kind = "fast", !.pc = "f_sha",
                                   !.projectName = projectName,
                                   !.percentage = percentage,
                                   !.content = map])
    /\ UNCHANGED <<drafts, nDrafts, submissions, tokenToUserId, nTokens,
                   processingConfirmations, trackerVars, notificationsSent,
                   configVars, formSubs, remoteVars, notifications, timers,
                   countVars, screens, cancelled, fault, calc, fastSettings>>

\* getContent answers: the file as it is (its sha is the hash of its content),
\* or an error, after which sha stays undefined
SaveFastSha(t, ok) ==
    /\ t.kind = "fast"
    /\ t.pc = "f_sha"
    /\ tasks' = Replace(t, [t EXCEPT !.pc = "f_put",
                               !.sha = IF ok /\ fastSettings.exists
                                      THEN fastSettings ELSE NoFile])
    /\ UNCHANGED <<drafts, nDrafts, submissions, tokenToUserId, nTokens,
                   processingConfirmations, trackerVars, notificationsSent,
                   configVars, formSubs, remoteVars, notifications, timers,
                   countVars, screens, cancelled, fault, calc, fastVars>>

\* createOrUpdateFileContents answers: written when the request arrives and
\* the sha sent is that of the file as it is now; the function then returns
\* true, and false after any error
SaveFastPut(t, ok) ==
    /\ t.kind = "fast"
    /\ t.pc = "f_put"
    /\ ok => t.sha = fastSettings
    /\ tasks' = Remove(t)
    /\ fastSettings' = IF ok THEN [exists |-> TRUE, content |-> t.content]
                       ELSE fastSettings
    /\ UNCHANGED <<drafts, nDrafts, submissions, tokenToUserId, nTokens,
                   processingConfirmations, trackerVars, notificationsSent,
                   configVars, formSubs, remoteVars, notifications, timers,
                   countVars, screens, cancelled, fault, calc,
                   fastCommissionPercentages>>

FastNext ==
    \/ \E projectName \in ProjectNames, percentage \in Percentages :
          SaveFastBegin(projectName, percentage)
    \/ \E t \in Tasks, ok \in BOOLEAN : SaveFastSha(t, ok)
    \/ \E t \in Tasks, ok \in BOOLEAN : SaveFastPut(t, ok)

FastSpec == Init /\ [][FastNext]_vars

\* ------------------------------------------------------------------------
SentOf(d) == CountIn(notifications, LAMBDA n : n.draft = d)

sharesValid(d) == validateAgentPercentages(FilterNamed(drafts[d].agents))

\* C11: whenever confirm_submission accepts a draft and mints its session
\* token, the shares of the draft's named consultants sum to 100 within the
\* tolerance at that moment.
C11_ConfirmedOnlyWithValidShares ==
    [][\A t \in Tasks :
          (t.draft # 0 /\ ConfirmMint(t)) => sharesValid(t.draft)]_vars

\* C12: when the customer modal is submitted for a draft whose named
\* consultants' shares do not sum to 100, no message gains a confirm button,
\* no commission is computed, a new message offers edit_agent_percentages,
\* the draft is not confirmed and no record is written.
C12_InvalidSharesBlockConfirmation ==
    [][\A u \in Users, m \in Msgs :
          LET d == submissions[u] IN
          (d # 0 /\ ~sharesValid(d) /\ CustomerForm(u, m)) =>
             /\ \A j \in Msgs : "confirm_submission" \in screens'[j]
                                   => "confirm_submission" \in screens[j]
             /\ FilterNamed(drafts'[d].agents) = FilterNamed(drafts[d].agents)
             /\ \E j \in Msgs : /\ screens[j] = {}
                                /\ "edit_agent_percentages" \in screens'[j]
             /\ drafts'[d].dataConfirmed = drafts[d].dataConfirmed
             /\ drafts'[d].status = drafts[d].status
             /\ submissions' = submissions
             /\ backup' = backup
             /\ tasks' = tasks]_vars

\* shares of 95 were refused: the reply offers the edit, the message of the
\* modal still offers the customer form, nothing is computed or confirmed
C12_Witness ==
    \E u \in Users, m \in Msgs, n \in Msgs :
       LET d == submissions[u] IN
       /\ d # 0
       /\ screens[n] = EditRow
       /\ "show_customer_form" \in screens[m]
       /\ "proceed_to_confirmation" \notin screens[m]
       /\ drafts[d].customer
       /\ TotalPercentage(drafts[d].agents, MaxAgents) = 19000
       /\ \A i \in Slots : drafts[d].agents[i].commission = -1
       /\ ~drafts[d].dataConfirmed
       /\ backup = <<>>

\* C13: once cancel_submission has removed a draft, no step of a webhook, a
\* manual poll or a re-poll (no confirmation of the draft being under way)
\* stores the draft again as its user's entry, appends a record of it or
\* sends a notification for it.
C13_CancelIsFinal ==
    [][\A d \in cancelled :
          (\A t \in Tasks : t.draft = d => t.kind \in {"poll", "timer", "hook"}) =>
          /\ submissions[drafts[d].owner] # d => submissions'[drafts[d].owner] # d
          /\ Cardinality(RecordsOfToken(drafts[d].sessionToken))'
                <= Cardinality(RecordsOfToken(drafts[d].sessionToken))
          /\ SentOf(d)' <= SentOf(d)]_vars

C15_BindingOnlyAfterFormCreated ==
    \A k \in Tokens :
       tokenToUserId[k] # 0 =>
          \E d \in 1..nDrafts : drafts[d].hasForm /\ drafts[d].formToken = k

\* the retry loop of confirm_submission: for (attempt = 1; attempt <= 3; ...)
FormRetryCap == 3

\* C16: the retry affordance of a confirmation is shown only after the
\* form-creation call was retried up to the cap: when it is shown, 3 attempts
\* were made.
C16_RetriedUpToCap ==
    [][\A t \in Tasks :
          ConfirmFormFailed(t) => t.attempts = FormRetryCap]_vars

\* the save of t ends without a write: an error that is no conflict, or a
\* conflict on the last attempt
SaveFails(t, ok) ==
    /\ t.pc = "put"
    /\ PutResult(t, ok)
    /\ LET o == IF ok THEN PutOutcome(t.sha) ELSE "error" IN
       /\ o # "written"
       /\ ~(o = "conflict" /\ t.retries > 1)

\* C17: when saveBackupToGitHub cannot write, its caller does not go on to
\* the notification and the completion of the draft.
C17_SaveFailureReported ==
    [][\A t \in Tasks, ok \in BOOLEAN :
          SaveFails(t, ok) =>
             \A r \in BagToSet(tasks') :
                ~(r.pc = "notify" /\ r.draft = t.draft /\ r.kind = t.kind)]_vars

\* C18: a call of saveBackupToGitHub writes at most 3 times: every write is
\* one of the attempts 1..3, another attempt follows only a conflict and
\* starts by fetching the sha again, and a successful write ends the call.
C18_AtMostThreeWrites ==
    [][\A t \in Tasks, ok \in BOOLEAN :
          (t.pc = "put" /\ PutResult(t, ok)) =>
             LET o == IF ok THEN PutOutcome(t.sha) ELSE "error"
                 ended == tasks' = Replace(t, [t EXCEPT !.pc = AfterSave(t)])
                 again == tasks' = Replace(t, [t EXCEPT !.pc = "sha",
                                                        !.retries = @ - 1])
             IN
             /\ SaveRetries - t.retries + 1 \in 1..3
             /\ ended \/ (again /\ o = "conflict")
             /\ o = "written" => (ended /\ backup' = t.list)]_vars

C18_Witness ==
    \E t \in Tasks : t.pc = "put" /\ t.retries = 1 /\ PutOutcome(t.sha) = "conflict"

C20_OneNotificationPerPair ==
    \A sid \in SubIds, u \in Users :
       CountIn(notifications, LAMBDA n : n.sid = sid /\ n.user = u) <= 1

C20_Witness ==
    \E sid \in SubIds :
       /\ Cardinality(RecordsOf(sid)) = 2
       /\ SentCount(sid) = 1
       /\ InFlight(sid) = 0

\* C21: a draft that is completed, with no handler of it still running, is no
\* longer its user's entry of the session store.
C21_CompletedEntryRemoved ==
    \A d \in 1..nDrafts :
       (drafts[d].status = "completed" /\ \A t \in Tasks : t.draft # d)
          => submissions[drafts[d].owner] # d

\* C22: when the project modal is submitted again for a user who has a draft,
\* the consultants (names, shares, commissions) and the customer fields of the
\* user's draft are the same before and after.
C22_ResubmitKeepsConsultantsAndCustomer ==
    [][\A u \in Users, m \in Msgs :
          ResubmitProject(u, m) =>
             /\ submissions'[u] # 0
             /\ drafts'[submissions'[u]].agents = drafts[submissions[u]].agents
             /\ drafts'[submissions'[u]].customer
                   = drafts[submissions[u]].customer]_vars

\* the reply of a resubmission: the consultants' buttons and
\* proceed_to_confirmation, for a draft with a priced consultant and a customer
C22_Witness ==
    \E u \in Users, m \in Msgs :
       LET d == submissions[u] IN
       /\ d # 0
       /\ "proceed_to_confirmation" \in screens[m]
       /\ "show_customer_form" \notin screens[m]
       /\ drafts[d].customer
       /\ drafts[d].agents[1].name
       /\ drafts[d].agents[1].commission > 0

\* C23: a step that needs the draft and finds no entry, or an entry without
\* the field it reads, shows the session-expired message with a restart button
\* and never ends in an uncaught exception: no handler has ever thrown.
C23_NoUnhandledFault ==
    fault = {}

\* C24: a manual poll that finds no submission schedules exactly one re-check,
\* and nothing else schedules one: a step raises a user's count of scheduled
\* re-checks only by one and only by ending that user's poll with no match; a
\* re-check starts only by consuming one scheduled re-check, and its own steps
\* never raise the count.
C24_OneRecheckPerEmptyPoll ==
    [][/\ \A t \in Tasks :
             (t.kind = "poll" /\ FetchResult(t, 0))
                => timers'[t.user] = timers[t.user] + 1
       /\ \A u \in Users :
             /\ timers'[u] > timers[u]
                   => /\ timers'[u] = timers[u] + 1
                      /\ \E t \in Tasks : /\ t.kind = "poll"
                                          /\ t.user = u
                                          /\ t.pc = "fetch"
                                          /\ tasks' = Remove(t)
             /\ (\E t \in Tasks' : /\ t.kind = "timer"
                                   /\ t.user = u
                                   /\ t.pc = "fetch"
                                   /\ CopiesIn(t, tasks') > CopiesIn(t, tasks))
                   => timers'[u] = timers[u] - 1]_vars

\* the re-check of the only poll is running and none is scheduled
C24_Witness ==
    /\ nPolls = 1
    /\ \E t \in Tasks : /\ t.kind = "timer"
                        /\ t.pc = "fetch"
                        /\ timers[t.user] = 0


\* the list L without the records at the positions of S (counted from 0), the
\* others in their order
Without(L, S) ==
    LET kept == {j \in 1..Len(L) : (j - 1) \notin S} IN
    [k \in 1..Cardinality(kept) |->
        L[CHOOSE j \in kept : Cardinality({i \in kept : i < j}) = k - 1]]

\* C25: when confirm_bulk_delete_ has loaded the list L, it goes on to save L
\* without the records at its indices, the others in their order, if every
\* index is inside L, and ends without saving otherwise; the list it saves is
\* the list that is written.
C25_BulkDeleteRemovesExactlyTheIndices ==
    [][\A t \in Tasks, ok \in BOOLEAN :
          /\ BulkDeleteLoad(t, ok) =>
                LET L == IF ok /\ backupExists THEN backup ELSE <<>> IN
                /\ backup' = backup
                /\ IF \A i \in t.indices : i < Len(L)
                   THEN tasks' = Replace(t, [t EXCEPT !.list = Without(L, t.indices),
                                                      !.retries = SaveRetries,
                                                      !.pc = "sha"])
                   ELSE tasks' = Remove(t)
          /\ (t.kind = "bulk" /\ t.pc = "put" /\ PutResult(t, ok)
                /\ backup' # backup) => backup' = t.list]_vars

\* a bulk delete of the first and the last of three records has been written:
\* the middle one is left
C25_Witness ==
    /\ Len(backup) = 1
    /\ backup[1].sid = 2
    /\ \E t \in Tasks : t.kind = "bulk" /\ t.pc = "d_reply" /\ t.indices = {0, 2}

\* the digits of a text
DigitsOf(str) == SelectSeq(str, LAMBDA c : IsDigit(c))

\* a text that is a number: digits, with or without commas between them
IsNumeric(str) ==
    /\ DigitsOf(str) # <<>>
    /\ \A i \in 1..Len(str) : IsDigit(str[i]) \/ str[i] = ","

\* the total commission, in cents, of a numeric price and a numeric rate
TotalCents == ValueOf(DigitsOf(calc.nettPrice)) * ValueOf(calc.commissionRate)

Calculated ==
    /\ calc.fn = "calculateCommissions"
    /\ calc.done
    /\ IsNumeric(calc.nettPrice)
    /\ calc.commissionRate # <<>>
    /\ \A i \in 1..Len(calc.commissionRate) : IsDigit(calc.commissionRate[i])

C27_ToleranceOfOneHundredth ==
    (calc.fn = "validateAgentPercentages" /\ calc.done) =>
       LET total == TotalPercentage(calc.agents, MaxAgents) IN
       /\ total \in {19998, 20000, 20002} => calc.valid
       /\ total \in {19996, 20004} => ~calc.valid

RECURSIVE SumOfCommissions(_, _)
SumOfCommissions(out, n) ==
    IF n = 0 THEN 0 ELSE SumOfCommissions(out, n - 1) + out[n].commission.value

\* C29: for a numeric net price and rate and a list whose shares sum to 100,
\* the commissions returned sum to netPrice * rate / 100 up to half a cent for
\* each consultant with a share.
C29_SumWithinRoundingError ==
    (Calculated /\ TotalPercentage(calc.agents, MaxAgents) = Hundred) =>
       LET sum == SumOfCommissions(calc.out, MaxAgents)
           count == Cardinality({i \in Slots : calc.agents[i].percentage # 0})
       IN /\ \A i \in Slots : ~calc.out[i].commission.nan
          /\ 2 * (sum - TotalCents) <= count
          /\ 2 * (TotalCents - sum) <= count

\* "100001" at rate "1" shared 50/50: both commissions end in half a cent, and
\* their sum is a cent away from 1000.01
C29_Witness ==
    /\ Calculated
    /\ TotalPercentage(calc.agents, MaxAgents) = Hundred
    /\ TotalCents = 100001
    /\ calc.agents[1].percentage = 10000
    /\ SumOfCommissions(calc.out, MaxAgents) = 100002

\* C30: when the net price without its commas does not begin with a number,
\* every commission returned is "0.00".
C30_NonNumericPriceCountsAsZero ==
    (/\ calc.fn = "calculateCommissions"
     /\ calc.done
     /\ parseFloat(cleanNettPrice(calc.nettPrice)).nan) =>
       \A i \in Slots : calc.out[i].commission = [nan |-> FALSE, value |-> 0]

\* C31: when saveFastCommissionPercentage(name, p) has returned true and the
\* map still holds what it stored, getFastCommissionPercentage returns p for
\* the name under every letter-casing, p = 0 included.
C31_SavedPercentageIsReturned ==
    [][\A t \in Tasks :
          (/\ SaveFastPut(t, TRUE)
           /\ fastCommissionPercentages[toLowerCase(t.projectName)]
                 = t.percentage)
             => \A n \in ProjectNames :
                   toLowerCase(n) = toLowerCase(t.projectName)
                      => getFastCommissionPercentage(n)' = t.percentage]_vars

\* a handler that completes a submission (not a deletion) has its write accepted
Persists(t) == t.kind \in {"poll", "timer", "hook"} /\ PutResult(t, TRUE)

\* L is the beginning of M
IsPrefix(L, M) == Len(L) <= Len(M) /\ \A i \in 1..Len(L) : M[i] = L[i]

\* C32: the write of a completed submission only appends, whatever its load
\* returned: when the list in the repository is still the one that was there
\* before the completions, the list after the write begins with it.
C32_PersistOnlyAppends ==
    [][\A t \in Tasks :
          (Persists(t) /\ backupExists /\ backup = OldList(Len(backup)))
             => IsPrefix(backup, backup')]_vars

\* C33: when two users' completions interleave, a handler whose load returned
\* the stored list never writes over a record the other handler has written
\* since: while the earlier records are all in the repository, every record
\* there before such a write is there after it.
C33_ConcurrentWritesKeepRecords ==
    [][\A t \in Tasks :
          (/\ Persists(t)
           /\ Len(t.list) > 1
           /\ IsPrefix(OldList(OldRecords), backup))
             => \A i \in 1..Len(backup) :
                   \E j \in 1..Len(backup') : backup'[j] = backup[i]]_vars

\* C34: the key confirm_<userId> is released whenever the handling of
\* confirm_submission ends: a user with no confirm_submission handler under way
\* has no such key in processingConfirmations.
C34_ConfirmGuardReleased ==
    \A u \in Users :
       (\A t \in Tasks : ~(t.kind = "confirm" /\ t.user = u))
          => confirmKey(u) \notin processingConfirmations

\* C35: a webhook delivery that matches no draft (no token, an unknown token,
\* or a token whose draft does not await the form), for a submission id that
\* was in neither tracker set, leaves the id in neither set.
C35_UnmatchedWebhookLeavesNoMark ==
    [][\A sid \in SubIds, tok \in 0..MaxTokens :
          (/\ Webhook(sid, tok)
           /\ MatchedDraft(tok) = 0
           /\ sid \notin processedSubmissions \cup processingSubmissions)
             => sid \notin processedSubmissions' \cup processingSubmissions']_vars

\* C36: every upload form handed to the user for a draft carries that draft's
\* session token, whichever step created the form.
C36_FormCarriesSessionToken ==
    \A d \in 1..nDrafts :
       drafts[d].hasForm => drafts[d].formToken = drafts[d].sessionToken

\* C37: at the moment a notification of a submission is sent, the list in the
\* repository holds a record with that submission id.
C37_NotifiedOnlyWhenRecorded ==
    [][\A t \in Tasks :
          (SendResult(t, TRUE) /\ notifications' # notifications)
             => \E i \in 1..Len(backup) : backup[i].sid = t.sid]_vars

\* C38: in every record of the stored list, each named participant's payout
\* is what calculateCommissions gives for the record's own fields.
C38_RecordPayoutsAreCalculated ==
    \A i \in 1..Len(backup) :
       backup[i].agents = calculateCommissions(backup[i].agents)

\* C39: a draft in status awaiting_form_completion leaves that status only
\* by being completed; a chat message with attachments leaves it as it is.
C39_OnlyCompletionLeavesAwaiting ==
    [][\A d \in 1..nDrafts :
          (/\ drafts[d].status = "awaiting_form_completion"
           /\ drafts'[d].status # "awaiting_form_completion")
          => drafts'[d].status = "completed"]_vars

====
